---- MODULE Spec2Model ----
(***************************************************************************)
(* Model of the ring channel of ft60x-rs (src/src/ringbuf.rs): a bounded   *)
(* single-producer/single-consumer ring of buffers whose two endpoints     *)
(* exchange positions over two std::sync::mpsc channels and share one      *)
(* cancellation flag.                                                      *)
(*                                                                         *)
(* Each endpoint is a thread; every action is one statement (or one group  *)
(* of thread-local statements) of the source, so that every interleaving   *)
(* of the two threads at the points where they touch shared state (the     *)
(* flag, the two feeds, the slots) is a behaviour of the model.            *)
(*                                                                         *)
(* The flag is read and written with Ordering::Relaxed. A message received *)
(* from a feed orders the receiver after the flag store that preceded the  *)
(* send, and an endpoint touches nothing shared between its flag store and *)
(* that send, so a late view of the flag is the same as an earlier         *)
(* scheduling of the load: the interleaving of the statements covers it.   *)
(*                                                                         *)
(* usize arithmetic that overflows panics in a build with overflow checks  *)
(* and wraps in one without; overflow_checks is chosen in Init. A panic in *)
(* with_next_buffer or in an explicit cancel() ends the endpoint's thread  *)
(* ("panicked"); a panic inside drop() unwinds through the release of the  *)
(* endpoint's fields, which are released all the same.                     *)
(*                                                                         *)
(* The second half models the driver (src/src/ft60x.rs): the handshake of  *)
(* set_streaming_mode, the windowed fill of read_exact, the worker thread  *)
(* of data_stream_ringbuf (which fills the slots of a ring of four) and    *)
(* the worker thread of data_stream_mpsc with its caller. A session is one *)
(* of: the ring alone, direct fills, the ring session, the recycling       *)
(* session. rusb's AsyncGroup is abstracted to the number of requests it   *)
(* holds: wait_any on an empty group reports NotFound, otherwise it hands  *)
(* back one transfer, complete or short, or reports a transport error;     *)
(* every device call may succeed or fail.                                  *)
(*                                                                         *)
(* The last part models the configuration exchange: FT60xConfig::encode    *)
(* and FT60xConfig::parse (src/src/ft60x_config.rs) as operators on        *)
(* sequences of bytes, computed field by field as the code does, and       *)
(* get_config / set_config as one action each. A u32 is held as its two    *)
(* 16-bit halves. A panic (an index beyond a slice, u8 underflow in a      *)
(* build with overflow checks) is the outcome "Panic".                     *)
(***************************************************************************)
EXTENDS Integers, Sequences, FiniteSets, TLC

\* ------------------------------------------------------------------------
\* Bounds of the model
\* ------------------------------------------------------------------------
\* largest capacity requested from RingBuf::new
MaxCapacity == 3
\* number of buffers the producer may start to send
MaxPos == 6
\* explicit calls of cancel() per endpoint (the release adds one more)
MaxCancels == 1
\* usize::MAX of the model's (narrowed) usize
UsizeMax == 255

\* calls of FT60x::read_exact made directly on one session
MaxFills == 2
\* largest number of whole blocks in a short buffer
MaxSmallChunks == 2
\* a long buffer has up to this many whole blocks more than the window
MaxOver == 2

\* ------------------------------------------------------------------------
\* Constants of the program
\* ------------------------------------------------------------------------
\* ft60x.rs:100 and 156   let blocksize: usize = 32 * 1024;
blocksize == 32768
\* ft60x.rs:108 `if i > 500` and 172 `if outstanding > 500`
window == 500
\* ft60x.rs:84-87   the command descriptor has 20 bytes
ctrlreq_len == 20
\* ft60x.rs:90   write_bulk(0x01, ..)
EP_CMD == 1
\* ft60x.rs:121 and 209   Transfer::bulk(.., 0x82, ..)
EP_DATA == 130
\* ft60x.rs:261   create_channel_with_default_value(4, ..)
RING_SLOTS == 4
\* ft60x_config.rs:27 and 100   [u8; 152]
CONFIG_LEN == 152
\* ft60x_config.rs:33 and 107   let mut strings_buf = [0u8; 128];
STRINGS_LEN == 128
\* ft60x_config.rs:40 and 115   the type tag of a string field
STRING_TAG == 3

Capacities == 0..MaxCapacity
\* what the producer's callback writes into the slot of its k-th buffer
\* (k counted from 0): a content that tells the buffers apart
Item(k) == k + 1
Data == {Item(k) : k \in 0..(MaxPos - 1)}
\* content of a slot after construction (the `default` argument)
Default == 0
\* content of a slot while a producer callback holds &mut to it
Torn == -1

VARIABLES
    \* construction
    channel,                  \* "requested" | "created" | "rejected"
    capacity,                 \* RingBuf::capacity (the requested capacity)
    overflow_checks,          \* build: does usize arithmetic panic on overflow
    \* RingBuf
    buffer,                   \* RingBuf::buffer
    one_was_dropped,          \* RingBuf::one_was_dropped
    \* the two mpsc channels
    write_feed,               \* messages in flight producer -> consumer
    ack_feed,                 \* messages in flight consumer -> producer
    write_tx,                 \* RingBufProducer::next_write_pos_sink exists
    write_rx,                 \* RingBufConsumer::next_write_pos exists
    ack_tx,                   \* RingBufConsumer::last_read_pos exists
    ack_rx,                   \* RingBufProducer::last_read_pos exists
    \* RingBufProducer
    pcP,
    next_write_pos,
    lastknown_last_read_pos,
    p_last_read_pos,          \* loop variable `last_read_pos` of line 79
    resP,                     \* outcome of the last with_next_buffer
    cancelsP,                 \* cancel() calls begun (explicit and by Drop)
    cancelOutP,               \* outcome of the last cancel()
    \* RingBufConsumer
    pcC,
    next_read_pos,
    lastknown_next_write_pos,
    c_next_write_pos,         \* loop variable `next_write_pos` of line 141
    resC,
    cancelsC,
    cancelOutC,
    \* history
    sendLog,                  \* contents written by the sends that returned Ok
    recvLog,                  \* contents handed to the receive callbacks
    sendBlockedAtDrop,        \* producer was blocked when the consumer was released
    recvBlockedAtDrop,        \* consumer was blocked when the producer was released
    \* FT60x
    session,                  \* how the FT60x is used: "none" | "direct" | "ringbuf" | "mpsc"
    bufsize,                  \* argument of data_stream_ringbuf
    streaming_mode,           \* FT60x::streaming_mode
    handshake,                \* device operations of set_streaming_mode that succeeded
    ssm_pc,                   \* position in set_streaming_mode
    \* one call of FT60x::read_exact
    rpc,
    buflen,                   \* buf.len()
    mut_chunks_len,
    chunk_i,                  \* loop variable `i` of line 106
    collected,
    pending,                  \* transfers held by async_group
    requests,                 \* (endpoint, offset, length) of the transfers submitted
    rres,                     \* outcome of the call: "none" | "Ok" | "Err"
    fills,                    \* calls of read_exact begun
    saw_short,                \* a transfer of this call came back short
    saw_io,                   \* submit or wait_any of this call reported a transport error
    \* FT60x::data_stream_mpsc
    in_flight_buffers,        \* argument: the bound of both queues
    empty_buffers,            \* buffers in flight on the empty-buffer queue
    full_buffers,             \* buffers in flight on the full-buffer queue
    empty_buffer_tx,          \* the caller's SyncSender exists
    empty_buffer_rx,          \* the worker's Receiver exists
    full_buffer_tx,           \* the worker's SyncSender exists
    full_buffer_rx,           \* the caller's Receiver exists
    mpc,                      \* position of the worker thread
    mres,                     \* how thread_fn ended: "none" | "Ok" | the failure
    async_group_buffer,
    current_buffer,           \* with current_async_group
    outstanding,
    poll_i,                   \* loop variable `i` of lines 174 and 219
    to_ship,
    sent,                     \* buffers the caller has put on the empty-buffer queue
    taken,                    \* ids of the buffers the worker has taken, in order
    received,                 \* buffers the caller has got from the full-buffer queue
    send_res,                 \* outcome of the caller's last send
    recv_res,                 \* outcome of the caller's last recv
    \* FT60xConfig, FT60x::get_config and FT60x::set_config
    config,                   \* <<c>>: the record at hand (also the one the device holds)
    wire,                     \* the 152 bytes last encoded, sent or read
    enc_res,                  \* outcome of encode: "none" | "Ok" | "Err"
    parsed,                   \* <<c>>: the record parse or get_config returned
    dec_res,                  \* outcome of parse: "none" | "Ok" | "Err" | "Panic"
    ctl                       \* the last get_config / set_config: [op, count, res]

ctorVars == <<channel, capacity, overflow_checks>>
ringVars == <<buffer, one_was_dropped>>
chanVars == <<write_feed, ack_feed, write_tx, write_rx, ack_tx, ack_rx>>
prodVars == <<pcP, next_write_pos, lastknown_last_read_pos, p_last_read_pos,
              resP, cancelsP, cancelOutP>>
consVars == <<pcC, next_read_pos, lastknown_next_write_pos, c_next_write_pos,
              resC, cancelsC, cancelOutC>>
histVars == <<sendLog, recvLog, sendBlockedAtDrop, recvBlockedAtDrop>>
ringChannelVars == <<ctorVars, ringVars, chanVars, prodVars, consVars, histVars>>
\* what a session is started with, and the configuration exchange, which no
\* step of a stream touches
useVars == <<session, bufsize, in_flight_buffers,
             config, wire, enc_res, parsed, dec_res, ctl>>
devVars == <<useVars, streaming_mode, handshake, ssm_pc>>
fillVars == <<rpc, buflen, mut_chunks_len, chunk_i, collected, pending,
              requests, rres, fills, saw_short, saw_io>>
queueVars == <<empty_buffers, full_buffers, empty_buffer_tx, empty_buffer_rx,
               full_buffer_tx, full_buffer_rx>>
workerVars == <<mpc, mres, async_group_buffer, current_buffer, outstanding,
                poll_i, to_ship, taken>>
callerVars == <<sent, received, send_res, recv_res>>
mqVars == <<queueVars, workerVars, callerVars>>
extVars == <<devVars, fillVars, mqVars>>
vars == <<ringChannelVars, extVars>>

\* ------------------------------------------------------------------------
\* usize arithmetic
\* ------------------------------------------------------------------------
\* a - b on usize overflows
SubOverflows(a, b) == b > a

\* a - b on usize when overflow is not checked (two's complement wrap)
WrapSub(a, b) == IF b > a THEN (UsizeMax + 1) - (b - a) ELSE a - b

\* ------------------------------------------------------------------------
\* the two loop conditions
\* ------------------------------------------------------------------------
\* mutant of ProducerMayWrite: the comparison is <= instead of <
ProducerMayWrite_Leq(nwp, lrp, cap) == WrapSub(nwp, lrp) <= cap

\* mutant of ProducerMayWrite: one slot too few is handed out
ProducerMayWrite_Short(nwp, lrp, cap) == WrapSub(nwp, lrp) < cap - 1

\* ringbuf.rs:86   (self.next_write_pos - last_read_pos) < self.ringbuf.capacity
ProducerMayWrite(nwp, lrp, cap) == WrapSub(nwp, lrp) < cap

\* mutant of ConsumerMayRead: the comparison is >= instead of >
ConsumerMayRead_Geq(nwp, nrp) == nwp >= nrp

\* ringbuf.rs:148  next_write_pos > self.next_read_pos
ConsumerMayRead(nwp, nrp) == nwp > nrp

\* ringbuf.rs:13   assert!(capacity != 1, ...)
CapacityAccepted(cap) == cap # 1

\* ------------------------------------------------------------------------
\* FT60x::new (ft60x.rs:42-46) and the locals of a read_exact not yet called
\* ------------------------------------------------------------------------
NoFill ==
    /\ rpc = "idle"
    /\ buflen = 0
    /\ mut_chunks_len = 0
    /\ chunk_i = 0
    /\ collected = 0
    /\ pending = 0
    /\ requests = <<>>
    /\ rres = "none"
    /\ fills = 0
    /\ saw_short = FALSE
    /\ saw_io = FALSE

\* to_ship = None
None == -1

\* no configuration has been encoded, parsed, read or written
NoControl == [op |-> "none", count |-> None, res |-> "none"]
NoConfig ==
    /\ config = <<>>
    /\ wire = <<>>
    /\ enc_res = "none"
    /\ parsed = <<>>
    /\ dec_res = "none"
    /\ ctl = NoControl

\* the value of current_buffer while the worker holds no buffer
NoBuffer == [id |-> 0, len |-> 0, sub |-> 0, pend |-> 0, full |-> 0]

\* data_stream_mpsc has not been called
NoMpsc ==
    /\ in_flight_buffers = 0
    /\ empty_buffers = <<>>
    /\ full_buffers = <<>>
    /\ empty_buffer_tx = FALSE
    /\ empty_buffer_rx = FALSE
    /\ full_buffer_tx = FALSE
    /\ full_buffer_rx = FALSE
    /\ mpc = "none"
    /\ mres = "none"
    /\ async_group_buffer = <<>>
    /\ current_buffer = NoBuffer
    /\ outstanding = 0
    /\ poll_i = 0
    /\ to_ship = None
    /\ sent = 0
    /\ taken = <<>>
    /\ received = <<>>
    /\ send_res = "none"
    /\ recv_res = "none"

\* no FT60x takes part: the ring channel is used on its own
NoDevice ==
    /\ NoMpsc
    /\ NoConfig
    /\ session = "none"
    /\ bufsize = 0
    /\ streaming_mode = FALSE
    /\ handshake = <<>>
    /\ ssm_pc = "idle"
    /\ NoFill

\* ------------------------------------------------------------------------
\* Initial state: a capacity has been requested, nothing is built yet
\* ------------------------------------------------------------------------
\* nothing of a ring channel exists
RingFresh ==
    /\ buffer = <<>>
    /\ one_was_dropped = FALSE
    /\ write_feed = <<>>
    /\ ack_feed = <<>>
    /\ write_tx = FALSE
    /\ write_rx = FALSE
    /\ ack_tx = FALSE
    /\ ack_rx = FALSE
    /\ pcP = "none"
    /\ next_write_pos = 0
    /\ lastknown_last_read_pos = 0
    /\ p_last_read_pos = 0
    /\ resP = "none"
    /\ cancelsP = 0
    /\ cancelOutP = "none"
    /\ pcC = "none"
    /\ next_read_pos = 0
    /\ lastknown_next_write_pos = 0
    /\ c_next_write_pos = 0
    /\ resC = "none"
    /\ cancelsC = 0
    /\ cancelOutC = "none"
    /\ sendLog = <<>>
    /\ recvLog = <<>>
    /\ sendBlockedAtDrop = FALSE
    /\ recvBlockedAtDrop = FALSE

Init ==
    /\ NoDevice
    /\ channel = "requested"
    /\ capacity \in Capacities
    /\ overflow_checks \in BOOLEAN
    /\ RingFresh

\* ------------------------------------------------------------------------
\* RingBuf::create_channel_with_default_value (with RingBuf::new,
\* RingBufProducer::new and RingBufConsumer::new)
\* ------------------------------------------------------------------------
create_channel ==
    /\ channel = "requested"
    /\ IF CapacityAccepted(capacity)
         THEN /\ channel' = "created"
              /\ buffer' = [i \in 0..(capacity - 1) |-> Default]
              /\ write_tx' = TRUE
              /\ write_rx' = TRUE
              /\ ack_tx' = TRUE
              /\ ack_rx' = TRUE
              /\ pcP' = "idle"
              /\ pcC' = "idle"
         ELSE /\ channel' = "rejected"
              /\ UNCHANGED <<buffer, write_tx, write_rx, ack_tx, ack_rx, pcP, pcC>>
    /\ one_was_dropped' = FALSE
    /\ next_write_pos' = 0
    /\ lastknown_last_read_pos' = 0
    /\ next_read_pos' = 0
    /\ lastknown_next_write_pos' = 0
    /\ UNCHANGED <<capacity, overflow_checks, write_feed, ack_feed,
                   p_last_read_pos, resP, cancelsP, cancelOutP,
                   c_next_write_pos, resC, cancelsC, cancelOutC, histVars>>
    /\ UNCHANGED extVars

\* ------------------------------------------------------------------------
\* RingBufProducer::with_next_buffer
\* ------------------------------------------------------------------------
\* ringbuf.rs:79-80: the call starts; the loop's first item is
\* once(self.lastknown_last_read_pos)
P_Call ==
    /\ pcP = "idle"
    /\ next_write_pos < MaxPos
    /\ pcP' = "check"
    /\ p_last_read_pos' = lastknown_last_read_pos
    /\ UNCHANGED <<ctorVars, ringVars, chanVars, consVars, histVars,
                   next_write_pos, lastknown_last_read_pos, resP, cancelsP, cancelOutP>>
    /\ UNCHANGED extVars

\* mutant of P_Check: a send that finds the flag set counts the buffer as
\* sent before it returns Err
P_Check_ErrAdvances ==
    /\ pcP = "check"
    /\ IF one_was_dropped
         THEN /\ pcP' = "idle"
              /\ resP' = "Err"
              /\ next_write_pos' = next_write_pos + 1
              /\ UNCHANGED lastknown_last_read_pos
         ELSE IF overflow_checks /\ SubOverflows(next_write_pos, p_last_read_pos)
         THEN /\ pcP' = "panicked"
              /\ resP' = "Panic"
              /\ UNCHANGED <<lastknown_last_read_pos, next_write_pos>>
         ELSE IF ProducerMayWrite(next_write_pos, p_last_read_pos, capacity)
         THEN /\ pcP' = "slot"
              /\ lastknown_last_read_pos' = p_last_read_pos
              /\ UNCHANGED <<resP, next_write_pos>>
         ELSE /\ pcP' = "recv"
              /\ UNCHANGED <<lastknown_last_read_pos, resP, next_write_pos>>
    /\ UNCHANGED <<ctorVars, ringVars, chanVars, consVars, histVars,
                   p_last_read_pos, cancelsP, cancelOutP>>
    /\ UNCHANGED extVars

\* ringbuf.rs:82-89: the loop body for the item in hand
P_Check ==
    /\ pcP = "check"
    /\ IF one_was_dropped
         THEN /\ pcP' = "idle"
              /\ resP' = "Err"
              /\ UNCHANGED lastknown_last_read_pos
         ELSE IF overflow_checks /\ SubOverflows(next_write_pos, p_last_read_pos)
         THEN /\ pcP' = "panicked"
              /\ resP' = "Panic"
              /\ UNCHANGED lastknown_last_read_pos
         ELSE IF ProducerMayWrite(next_write_pos, p_last_read_pos, capacity)
         THEN /\ pcP' = "slot"
              /\ lastknown_last_read_pos' = p_last_read_pos
              /\ UNCHANGED resP
         ELSE /\ pcP' = "recv"
              /\ UNCHANGED <<lastknown_last_read_pos, resP>>
    /\ UNCHANGED <<ctorVars, ringVars, chanVars, consVars, histVars,
                   next_write_pos, p_last_read_pos, cancelsP, cancelOutP>>
    /\ UNCHANGED extVars

\* ringbuf.rs:80: self.last_read_pos.iter().next(): the next acknowledgement,
\* or the end of the iteration once the consumer's Sender is gone and the
\* feed is empty; after the loop the code goes on to line 92 either way
P_Recv ==
    /\ pcP = "recv"
    /\ IF ack_feed # <<>>
         THEN /\ p_last_read_pos' = Head(ack_feed)
              /\ ack_feed' = Tail(ack_feed)
              /\ pcP' = "check"
         ELSE /\ ~ack_tx
              /\ pcP' = "slot"
              /\ UNCHANGED <<p_last_read_pos, ack_feed>>
    /\ UNCHANGED <<ctorVars, ringVars, consVars, histVars,
                   write_feed, write_tx, write_rx, ack_tx, ack_rx,
                   next_write_pos, lastknown_last_read_pos, resP, cancelsP, cancelOutP>>
    /\ UNCHANGED extVars

\* ringbuf.rs:92-94: pos = next_write_pos % capacity (a panic for capacity 0)
\* and the callback is entered with &mut buffer[pos]
P_FuncStart ==
    /\ pcP = "slot"
    /\ IF capacity = 0
         THEN /\ pcP' = "panicked"
              /\ resP' = "Panic"
              /\ UNCHANGED buffer
         ELSE /\ pcP' = "func"
              /\ buffer' = [buffer EXCEPT ![next_write_pos % capacity] = Torn]
              /\ UNCHANGED resP
    /\ UNCHANGED <<ctorVars, one_was_dropped, chanVars, consVars, histVars,
                   next_write_pos, lastknown_last_read_pos, p_last_read_pos,
                   cancelsP, cancelOutP>>
    /\ UNCHANGED extVars

\* ringbuf.rs:94: the callback returns, having written the slot
P_FuncEnd ==
    /\ pcP = "func"
    /\ buffer' = [buffer EXCEPT ![next_write_pos % capacity] = Item(next_write_pos)]
    /\ pcP' = "publish"
    /\ UNCHANGED <<ctorVars, one_was_dropped, chanVars, consVars, histVars,
                   next_write_pos, lastknown_last_read_pos, p_last_read_pos,
                   resP, cancelsP, cancelOutP>>
    /\ UNCHANGED extVars

\* ringbuf.rs:96-99: next_write_pos += 1; send(next_write_pos).unwrap(); Ok
P_Publish ==
    /\ pcP = "publish"
    /\ next_write_pos' = next_write_pos + 1
    /\ IF write_rx
         THEN /\ write_feed' = Append(write_feed, next_write_pos + 1)
              /\ sendLog' = Append(sendLog, buffer[next_write_pos % capacity])
              /\ pcP' = "idle"
              /\ resP' = "Ok"
         ELSE /\ pcP' = "panicked"
              /\ resP' = "Panic"
              /\ UNCHANGED <<write_feed, sendLog>>
    /\ UNCHANGED <<ctorVars, ringVars, consVars,
                   ack_feed, write_tx, write_rx, ack_tx, ack_rx,
                   lastknown_last_read_pos, p_last_read_pos, cancelsP, cancelOutP,
                   recvLog, sendBlockedAtDrop, recvBlockedAtDrop>>
    /\ UNCHANGED extVars

\* ------------------------------------------------------------------------
\* RingBufProducer::cancel and Drop for RingBufProducer
\* ------------------------------------------------------------------------
\* mutant of P_Cancel: cancel() stores false into the flag
P_Cancel_StoreFalse ==
    /\ pcP = "idle"
    /\ cancelsP < MaxCancels
    /\ one_was_dropped' = FALSE
    /\ cancelsP' = cancelsP + 1
    /\ cancelOutP' = "running"
    /\ pcP' = "cancel_send"
    /\ UNCHANGED <<ctorVars, buffer, chanVars, consVars, histVars,
                   next_write_pos, lastknown_last_read_pos, p_last_read_pos, resP>>
    /\ UNCHANGED extVars

\* ringbuf.rs:70-71: an explicit cancel() begins and stores the flag
P_Cancel ==
    /\ pcP = "idle"
    /\ cancelsP < MaxCancels
    /\ one_was_dropped' = TRUE
    /\ cancelsP' = cancelsP + 1
    /\ cancelOutP' = "running"
    /\ pcP' = "cancel_send"
    /\ UNCHANGED <<ctorVars, buffer, chanVars, consVars, histVars,
                   next_write_pos, lastknown_last_read_pos, p_last_read_pos, resP>>
    /\ UNCHANGED extVars

\* ringbuf.rs:103-105 with 70-71: the endpoint is released; drop() calls
\* cancel(), which stores the flag
P_Drop ==
    /\ pcP = "idle"
    /\ one_was_dropped' = TRUE
    /\ cancelsP' = cancelsP + 1
    /\ cancelOutP' = "running"
    /\ pcP' = "drop_send"
    /\ recvBlockedAtDrop' = (pcC = "recv" /\ write_feed = <<>>)
    /\ UNCHANGED <<ctorVars, buffer, chanVars, consVars,
                   next_write_pos, lastknown_last_read_pos, p_last_read_pos, resP,
                   sendLog, recvLog, sendBlockedAtDrop>>
    /\ UNCHANGED extVars

\* mutant of P_CancelSend: cancel() pushes no final position
P_CancelSend_NoSend ==
    /\ pcP \in {"cancel_send", "drop_send"}
    /\ cancelOutP' = "ok"
    /\ pcP' = IF pcP = "drop_send" THEN "drop_sink" ELSE "idle"
    /\ UNCHANGED <<ctorVars, ringVars, consVars, histVars, chanVars,
                   next_write_pos, lastknown_last_read_pos, p_last_read_pos,
                   resP, cancelsP>>
    /\ UNCHANGED extVars

\* ringbuf.rs:72: self.next_write_pos_sink.send(self.next_write_pos).unwrap();
\* a panic inside drop() still releases the fields, unless drop() runs
\* because the thread is unwinding from a panic already: the second panic
\* aborts the process
P_CancelSend ==
    /\ pcP \in {"cancel_send", "drop_send"}
    /\ IF write_rx
         THEN /\ write_feed' = Append(write_feed, next_write_pos)
              /\ cancelOutP' = "ok"
              /\ pcP' = IF pcP = "drop_send" THEN "drop_sink" ELSE "idle"
         ELSE /\ cancelOutP' = "panic"
              /\ pcP' = IF pcP = "cancel_send" THEN "panicked"
                        ELSE IF resP = "Panic" THEN "aborted"
                        ELSE "drop_sink"
              /\ UNCHANGED write_feed
    /\ UNCHANGED <<ctorVars, ringVars, consVars, histVars,
                   ack_feed, write_tx, write_rx, ack_tx, ack_rx,
                   next_write_pos, lastknown_last_read_pos, p_last_read_pos,
                   resP, cancelsP>>
    /\ UNCHANGED extVars

\* ringbuf.rs:49: the field next_write_pos_sink (the Sender) is released
P_DropSink ==
    /\ pcP = "drop_sink"
    /\ write_tx' = FALSE
    /\ pcP' = "drop_recv"
    /\ UNCHANGED <<ctorVars, ringVars, consVars, histVars,
                   write_feed, ack_feed, write_rx, ack_tx, ack_rx,
                   next_write_pos, lastknown_last_read_pos, p_last_read_pos,
                   resP, cancelsP, cancelOutP>>
    /\ UNCHANGED extVars

\* ringbuf.rs:50: the field last_read_pos (the Receiver) is released, and
\* with it the acknowledgements still in flight
P_DropRecv ==
    /\ pcP = "drop_recv"
    /\ ack_rx' = FALSE
    /\ ack_feed' = <<>>
    /\ pcP' = "dropped"
    /\ UNCHANGED <<ctorVars, ringVars, consVars, histVars,
                   write_feed, write_tx, write_rx, ack_tx,
                   next_write_pos, lastknown_last_read_pos, p_last_read_pos,
                   resP, cancelsP, cancelOutP>>
    /\ UNCHANGED extVars

\* ------------------------------------------------------------------------
\* RingBufConsumer::with_next_buffer
\* ------------------------------------------------------------------------
\* ringbuf.rs:141-142: the call starts; the loop's first item is
\* once(self.lastknown_next_write_pos)
C_Call ==
    /\ pcC = "idle"
    /\ pcC' = "check"
    /\ c_next_write_pos' = lastknown_next_write_pos
    /\ UNCHANGED <<ctorVars, ringVars, chanVars, prodVars, histVars,
                   next_read_pos, lastknown_next_write_pos, resC, cancelsC, cancelOutC>>
    /\ UNCHANGED extVars

\* mutant of C_Check: the position is compared before the flag is tested, so
\* that a buffer published and not yet read is handed out after a cancel
C_Check_DataFirst ==
    /\ pcC = "check"
    /\ IF ConsumerMayRead(c_next_write_pos, next_read_pos)
         THEN /\ pcC' = "slot"
              /\ lastknown_next_write_pos' = c_next_write_pos
              /\ UNCHANGED resC
         ELSE IF one_was_dropped
         THEN /\ pcC' = "idle"
              /\ resC' = "Err"
              /\ UNCHANGED lastknown_next_write_pos
         ELSE /\ pcC' = "recv"
              /\ UNCHANGED <<lastknown_next_write_pos, resC>>
    /\ UNCHANGED <<ctorVars, ringVars, chanVars, prodVars, histVars,
                   next_read_pos, c_next_write_pos, cancelsC, cancelOutC>>
    /\ UNCHANGED extVars

\* ringbuf.rs:144-151: the loop body for the item in hand
C_Check ==
    /\ pcC = "check"
    /\ IF one_was_dropped
         THEN /\ pcC' = "idle"
              /\ resC' = "Err"
              /\ UNCHANGED lastknown_next_write_pos
         ELSE IF ConsumerMayRead(c_next_write_pos, next_read_pos)
         THEN /\ pcC' = "slot"
              /\ lastknown_next_write_pos' = c_next_write_pos
              /\ UNCHANGED resC
         ELSE /\ pcC' = "recv"
              /\ UNCHANGED <<lastknown_next_write_pos, resC>>
    /\ UNCHANGED <<ctorVars, ringVars, chanVars, prodVars, histVars,
                   next_read_pos, c_next_write_pos, cancelsC, cancelOutC>>
    /\ UNCHANGED extVars

\* ringbuf.rs:142: self.next_write_pos.iter().next(): the next published
\* position, or the end of the iteration once the producer's Sender is gone
\* and the feed is empty; after the loop the code goes on to line 154
C_Recv ==
    /\ pcC = "recv"
    /\ IF write_feed # <<>>
         THEN /\ c_next_write_pos' = Head(write_feed)
              /\ write_feed' = Tail(write_feed)
              /\ pcC' = "check"
         ELSE /\ ~write_tx
              /\ pcC' = "slot"
              /\ UNCHANGED <<c_next_write_pos, write_feed>>
    /\ UNCHANGED <<ctorVars, ringVars, prodVars, histVars,
                   ack_feed, write_tx, write_rx, ack_tx, ack_rx,
                   next_read_pos, lastknown_next_write_pos, resC, cancelsC, cancelOutC>>
    /\ UNCHANGED extVars

\* ringbuf.rs:154-155: pos = next_read_pos % capacity (a panic for capacity
\* 0) and the callback is entered with &buffer[pos]
C_FuncStart ==
    /\ pcC = "slot"
    /\ IF capacity = 0
         THEN /\ pcC' = "panicked"
              /\ resC' = "Panic"
              /\ UNCHANGED recvLog
         ELSE /\ pcC' = "func"
              /\ recvLog' = Append(recvLog, buffer[next_read_pos % capacity])
              /\ UNCHANGED resC
    /\ UNCHANGED <<ctorVars, ringVars, chanVars, prodVars,
                   next_read_pos, lastknown_next_write_pos, c_next_write_pos,
                   cancelsC, cancelOutC, sendLog, sendBlockedAtDrop, recvBlockedAtDrop>>
    /\ UNCHANGED extVars

\* ringbuf.rs:155: the callback returns
C_FuncEnd ==
    /\ pcC = "func"
    /\ pcC' = "ack"
    /\ UNCHANGED <<ctorVars, ringVars, chanVars, prodVars, histVars,
                   next_read_pos, lastknown_next_write_pos, c_next_write_pos,
                   resC, cancelsC, cancelOutC>>
    /\ UNCHANGED extVars

\* ringbuf.rs:157: self.last_read_pos.send(self.next_read_pos).unwrap()
C_Ack ==
    /\ pcC = "ack"
    /\ IF ack_rx
         THEN /\ ack_feed' = Append(ack_feed, next_read_pos)
              /\ pcC' = "advance"
              /\ UNCHANGED resC
         ELSE /\ pcC' = "panicked"
              /\ resC' = "Panic"
              /\ UNCHANGED ack_feed
    /\ UNCHANGED <<ctorVars, ringVars, prodVars, histVars,
                   write_feed, write_tx, write_rx, ack_tx, ack_rx,
                   next_read_pos, lastknown_next_write_pos, c_next_write_pos,
                   cancelsC, cancelOutC>>
    /\ UNCHANGED extVars

\* ringbuf.rs:159-161: self.next_read_pos += 1; Ok(ret)
C_Advance ==
    /\ pcC = "advance"
    /\ next_read_pos' = next_read_pos + 1
    /\ pcC' = "idle"
    /\ resC' = "Ok"
    /\ UNCHANGED <<ctorVars, ringVars, chanVars, prodVars, histVars,
                   lastknown_next_write_pos, c_next_write_pos, cancelsC, cancelOutC>>
    /\ UNCHANGED extVars

\* ------------------------------------------------------------------------
\* RingBufConsumer::cancel and Drop for RingBufConsumer
\* ------------------------------------------------------------------------
\* ringbuf.rs:132-133: an explicit cancel() begins and stores the flag
C_Cancel ==
    /\ pcC = "idle"
    /\ cancelsC < MaxCancels
    /\ one_was_dropped' = TRUE
    /\ cancelsC' = cancelsC + 1
    /\ cancelOutC' = "running"
    /\ pcC' = "cancel_send"
    /\ UNCHANGED <<ctorVars, buffer, chanVars, prodVars, histVars,
                   next_read_pos, lastknown_next_write_pos, c_next_write_pos, resC>>
    /\ UNCHANGED extVars

\* ringbuf.rs:165-167 with 132-133: the endpoint is released; drop() calls
\* cancel(), which stores the flag
C_Drop ==
    /\ pcC = "idle"
    /\ one_was_dropped' = TRUE
    /\ cancelsC' = cancelsC + 1
    /\ cancelOutC' = "running"
    /\ pcC' = "drop_send"
    /\ sendBlockedAtDrop' = (pcP = "recv" /\ ack_feed = <<>>)
    /\ UNCHANGED <<ctorVars, buffer, chanVars, prodVars,
                   next_read_pos, lastknown_next_write_pos, c_next_write_pos, resC,
                   sendLog, recvLog, recvBlockedAtDrop>>
    /\ UNCHANGED extVars

\* ringbuf.rs:134: self.last_read_pos.send(self.next_read_pos - 1).unwrap();
\* the subtraction overflows for next_read_pos = 0: a panic when the build
\* checks overflow, usize::MAX when it does not. A panic inside drop() still
\* releases the fields
C_CancelSend ==
    /\ pcC \in {"cancel_send", "drop_send"}
    /\ IF ~(overflow_checks /\ SubOverflows(next_read_pos, 1)) /\ ack_rx
         THEN /\ ack_feed' = Append(ack_feed, WrapSub(next_read_pos, 1))
              /\ cancelOutC' = "ok"
              /\ pcC' = IF pcC = "drop_send" THEN "drop_recv" ELSE "idle"
         ELSE /\ cancelOutC' = "panic"
              /\ pcC' = IF pcC = "drop_send" THEN "drop_recv" ELSE "panicked"
              /\ UNCHANGED ack_feed
    /\ UNCHANGED <<ctorVars, ringVars, prodVars, histVars,
                   write_feed, write_tx, write_rx, ack_tx, ack_rx,
                   next_read_pos, lastknown_next_write_pos, c_next_write_pos,
                   resC, cancelsC>>
    /\ UNCHANGED extVars

\* ringbuf.rs:111: the field next_write_pos (the Receiver) is released, and
\* with it the positions still in flight
C_DropRecv ==
    /\ pcC = "drop_recv"
    /\ write_rx' = FALSE
    /\ write_feed' = <<>>
    /\ pcC' = "drop_sink"
    /\ UNCHANGED <<ctorVars, ringVars, prodVars, histVars,
                   ack_feed, write_tx, ack_tx, ack_rx,
                   next_read_pos, lastknown_next_write_pos, c_next_write_pos,
                   resC, cancelsC, cancelOutC>>
    /\ UNCHANGED extVars

\* ringbuf.rs:112: the field last_read_pos (the Sender) is released
C_DropSink ==
    /\ pcC = "drop_sink"
    /\ ack_tx' = FALSE
    /\ pcC' = "dropped"
    /\ UNCHANGED <<ctorVars, ringVars, prodVars, histVars,
                   write_feed, ack_feed, write_tx, write_rx, ack_rx,
                   next_read_pos, lastknown_next_write_pos, c_next_write_pos,
                   resC, cancelsC, cancelOutC>>
    /\ UNCHANGED extVars

\* ------------------------------------------------------------------------
\* Specifications
\* ------------------------------------------------------------------------
\* the steps of an operation of the producer thread that is under way
ProducerRun ==
    \/ P_Check
    \/ P_Recv
    \/ P_FuncStart
    \/ P_FuncEnd
    \/ P_Publish
    \/ P_CancelSend
    \/ P_DropSink
    \/ P_DropRecv

\* the steps of an operation of the consumer thread that is under way
ConsumerRun ==
    \/ C_Check
    \/ C_Recv
    \/ C_FuncStart
    \/ C_FuncEnd
    \/ C_Ack
    \/ C_Advance
    \/ C_CancelSend
    \/ C_DropRecv
    \/ C_DropSink

Next ==
    \/ create_channel
    \/ P_Call
    \/ P_Cancel
    \/ P_Drop
    \/ ProducerRun
    \/ C_Call
    \/ C_Cancel
    \/ C_Drop
    \/ ConsumerRun

Spec == Init /\ [][Next]_vars

\* both threads are scheduled: an operation that has begun and can take a
\* step eventually takes it
FairSpec == Spec /\ WF_vars(ProducerRun) /\ WF_vars(ConsumerRun)

TypeOK ==
    /\ channel \in {"none", "requested", "created", "rejected"}
    /\ capacity \in Capacities \cup {RING_SLOTS}
    /\ overflow_checks \in BOOLEAN
    /\ one_was_dropped \in BOOLEAN
    /\ session \in {"none", "direct", "ringbuf", "mpsc", "config"}
    /\ enc_res \in {"none", "Ok", "Err"}
    /\ dec_res \in {"none", "Ok", "Err", "Panic"}
    /\ ctl.op \in {"none", "get", "set"}
    /\ ctl.res \in {"none", "Ok", "Err", "Panic"}
    /\ Len(config) <= 1
    /\ Len(parsed) <= 1
    /\ Len(wire) \in {0, CONFIG_LEN}
    /\ streaming_mode \in BOOLEAN
    /\ ssm_pc \in {"idle", "enter", "claim0", "claim1", "write", "Ok", "Err"}
    /\ rpc \in {"idle", "mode", "next", "wait", "submit", "drain", "tally", "done"}
    /\ rres \in {"none", "Ok", "Err"}
    /\ collected <= mut_chunks_len
    /\ Len(requests) = chunk_i
    /\ DOMAIN buffer \subseteq 0..(capacity - 1)
    /\ \A i \in DOMAIN buffer : buffer[i] \in Data \cup {Default, Torn}
    /\ next_write_pos \in 0..MaxPos
    /\ next_read_pos \in 0..MaxPos
    /\ resP \in {"none", "Ok", "Err", "Panic"}
    /\ resC \in {"none", "Ok", "Err", "Panic"}
    /\ Len(sendLog) <= MaxPos
    /\ Len(recvLog) <= MaxPos + 1

\* ------------------------------------------------------------------------
\* FT60x::set_streaming_mode (ft60x.rs:79-94). The caller sets ssm_pc to
\* "enter" and goes on when it is "Ok" or "Err"; every device operation
\* either succeeds or reports a transport error
\* ------------------------------------------------------------------------
\* what the log of the handshake records for claim_interface(n) and for
\* write_bulk(0x01, &ctrlreq, ..), with the outcome the device gave
ClaimOp(n, ok) == <<"claim_interface", n, IF ok THEN "Ok" ELSE "Err">>
WriteOp(ok) == <<"write_bulk", EP_CMD, ctrlreq_len, IF ok THEN "Ok" ELSE "Err">>

\* mutant of SSM_Enter: the flag is not looked at
SSM_Enter_Always ==
    /\ ssm_pc = "enter"
    /\ ssm_pc' = "claim0"
    /\ UNCHANGED <<ringChannelVars, mqVars, useVars, streaming_mode, handshake, fillVars>>

\* ft60x.rs:80   if !self.streaming_mode
SSM_Enter ==
    /\ ssm_pc = "enter"
    /\ ssm_pc' = IF streaming_mode THEN "Ok" ELSE "claim0"
    /\ UNCHANGED <<ringChannelVars, mqVars, useVars, streaming_mode, handshake, fillVars>>

\* ft60x.rs:81   self.device.claim_interface(0)?;
SSM_Claim0 ==
    /\ ssm_pc = "claim0"
    /\ \E ok \in BOOLEAN :
          /\ handshake' = Append(handshake, ClaimOp(0, ok))
          /\ ssm_pc' = IF ok THEN "claim1" ELSE "Err"
    /\ UNCHANGED <<ringChannelVars, mqVars, useVars, streaming_mode, fillVars>>

\* ft60x.rs:82   self.device.claim_interface(1)?;
SSM_Claim1 ==
    /\ ssm_pc = "claim1"
    /\ \E ok \in BOOLEAN :
          /\ handshake' = Append(handshake, ClaimOp(1, ok))
          /\ ssm_pc' = IF ok THEN "write" ELSE "Err"
    /\ UNCHANGED <<ringChannelVars, mqVars, useVars, streaming_mode, fillVars>>

\* mutant of SSM_Write: streaming_mode is set before the descriptor is written
SSM_Write_FlagFirst ==
    /\ ssm_pc = "write"
    /\ \E ok \in BOOLEAN :
          /\ handshake' = Append(handshake, WriteOp(ok))
          /\ streaming_mode' = TRUE
          /\ ssm_pc' = IF ok THEN "Ok" ELSE "Err"
    /\ UNCHANGED <<ringChannelVars, mqVars, useVars, fillVars>>

\* ft60x.rs:84-91   write_bulk(0x01, &ctrlreq, ..)?; self.streaming_mode = true;
SSM_Write ==
    /\ ssm_pc = "write"
    /\ \E ok \in BOOLEAN :
          /\ handshake' = Append(handshake, WriteOp(ok))
          /\ streaming_mode' = (streaming_mode \/ ok)
          /\ ssm_pc' = IF ok THEN "Ok" ELSE "Err"
    /\ UNCHANGED <<ringChannelVars, mqVars, useVars, fillVars>>

\* the steps of a set_streaming_mode that is under way
SetStreamingMode ==
    \/ SSM_Enter
    \/ SSM_Claim0
    \/ SSM_Claim1
    \/ SSM_Write

\* ------------------------------------------------------------------------
\* FT60x::read_exact (ft60x.rs:97-142)
\* ------------------------------------------------------------------------
\* ft60x.rs:102   ChunksMut::len(): the number of chunks of a slice of len bytes
ChunksLen(len) == (len \div blocksize) + (IF len % blocksize = 0 THEN 0 ELSE 1)

\* mutant of ChunkSize: every chunk is a whole block
ChunkSize_Whole(len, i) == blocksize

\* ft60x.rs:101, 106   the length of the i-th chunk chunks_mut yields
ChunkSize(len, i) ==
    IF len - i * blocksize < blocksize THEN len - i * blocksize ELSE blocksize

\* ft60x.rs:119-124   the request for the i-th chunk: a bulk transfer on
\* endpoint 0x82 into the chunk, which starts i blocks into the buffer
ReadOp(len, i) == <<EP_DATA, i * blocksize, ChunkSize(len, i)>>

\* the buffer lengths read_exact is called with: short buffers, and buffers
\* of about as many blocks as the window, each with and without a remainder
BufLens ==
    {n * blocksize + r : n \in 0..MaxSmallChunks, r \in {0, 1, blocksize - 1}}
        \cup {(window + k) * blocksize + r : k \in 0..MaxOver, r \in {0, 1}}

\* ft60x.rs:97-98: the call starts and calls set_streaming_mode
RE_Enter(len) ==
    /\ rpc' = "mode"
    /\ ssm_pc' = "enter"
    /\ buflen' = len
    /\ fills' = fills + 1
    /\ rres' = "none"
    /\ saw_short' = FALSE
    /\ saw_io' = FALSE
    /\ UNCHANGED <<mut_chunks_len, chunk_i, collected, pending, requests>>

\* read_exact is called on the FT60x by its owner
RE_Call ==
    /\ session = "direct"
    /\ rpc = "idle"
    /\ ssm_pc = "idle"
    /\ fills < MaxFills
    /\ \E len \in BufLens : RE_Enter(len)
    /\ UNCHANGED <<ringChannelVars, mqVars, useVars, streaming_mode, handshake>>

\* ft60x.rs:98-105: set_streaming_mode()? has returned; on Ok the locals
\* are set up
RE_Mode ==
    /\ rpc = "mode"
    /\ ssm_pc \in {"Ok", "Err"}
    /\ ssm_pc' = "idle"
    /\ IF ssm_pc = "Ok"
         THEN /\ rpc' = "next"
              /\ mut_chunks_len' = ChunksLen(buflen)
              /\ collected' = 0
              /\ pending' = 0
              /\ chunk_i' = 0
              /\ UNCHANGED rres
         ELSE /\ rpc' = "done"
              /\ rres' = "Err"
              /\ UNCHANGED <<mut_chunks_len, collected, pending, chunk_i>>
    /\ UNCHANGED <<ringChannelVars, mqVars, useVars, streaming_mode, handshake,
                   buflen, requests, fills, saw_short, saw_io>>

\* ft60x.rs:106-108: the next (i, chunk) of the enumeration, and `if i > 500`
RE_Next ==
    /\ rpc = "next"
    /\ rpc' = IF chunk_i = mut_chunks_len THEN "drain"
              ELSE IF chunk_i > window THEN "wait"
              ELSE "submit"
    /\ UNCHANGED <<ringChannelVars, mqVars, devVars, buflen, mut_chunks_len, chunk_i,
                   collected, pending, requests, rres, fills, saw_short, saw_io>>

\* ft60x.rs:109-116: async_group.wait_any()? hands back one of the pending
\* transfers, complete or short, or reports an error (NotFound when the
\* group holds no transfer)
RE_Wait ==
    /\ rpc = "wait"
    /\ IF pending = 0
         THEN /\ rpc' = "done"
              /\ rres' = "Err"
              /\ UNCHANGED <<collected, pending, saw_short, saw_io>>
         ELSE \E out \in {"full", "short", "error"} :
                 /\ rpc' = IF out = "full" THEN "submit" ELSE "done"
                 /\ rres' = IF out = "full" THEN rres ELSE "Err"
                 /\ collected' = IF out = "full" THEN collected + 1 ELSE collected
                 /\ pending' = IF out = "error" THEN pending ELSE pending - 1
                 /\ saw_short' = (saw_short \/ out = "short")
                 /\ saw_io' = (saw_io \/ out = "error")
    /\ UNCHANGED <<ringChannelVars, mqVars, devVars, buflen, mut_chunks_len, chunk_i,
                   requests, fills>>

\* ft60x.rs:119-124: async_group.submit(Transfer::bulk(.., 0x82, chunk, ..))?
RE_Submit ==
    /\ rpc = "submit"
    /\ \E ok \in BOOLEAN :
          IF ok THEN /\ requests' = Append(requests, ReadOp(buflen, chunk_i))
                     /\ pending' = pending + 1
                     /\ chunk_i' = chunk_i + 1
                     /\ rpc' = "next"
                     /\ UNCHANGED <<rres, saw_io>>
                ELSE /\ rpc' = "done"
                     /\ rres' = "Err"
                     /\ saw_io' = TRUE
                     /\ UNCHANGED <<requests, pending, chunk_i>>
    /\ UNCHANGED <<ringChannelVars, mqVars, devVars, buflen, mut_chunks_len, collected,
                   fills, saw_short>>

\* mutant of RE_Drain: the length of a drained transfer is not compared
RE_Drain_NoEnsure ==
    /\ rpc = "drain"
    /\ IF pending = 0
         THEN /\ rpc' = "tally"
              /\ UNCHANGED <<rres, collected, pending, saw_short, saw_io>>
         ELSE \E out \in {"full", "short", "error"} :
                 /\ rpc' = IF out = "error" THEN "tally" ELSE "drain"
                 /\ rres' = rres
                 /\ collected' = IF out = "error" THEN collected ELSE collected + 1
                 /\ pending' = IF out = "error" THEN pending ELSE pending - 1
                 /\ saw_short' = (saw_short \/ out = "short")
                 /\ saw_io' = (saw_io \/ out = "error")
    /\ UNCHANGED <<ringChannelVars, mqVars, devVars, buflen, mut_chunks_len, chunk_i,
                   requests, fills>>

\* ft60x.rs:126-134: while let Ok(transfer) = async_group.wait_any(): any
\* error ends the loop, a short transfer returns the error of ensure!
RE_Drain ==
    /\ rpc = "drain"
    /\ IF pending = 0
         THEN /\ rpc' = "tally"
              /\ UNCHANGED <<rres, collected, pending, saw_short, saw_io>>
         ELSE \E out \in {"full", "short", "error"} :
                 /\ rpc' = CASE out = "full" -> "drain"
                             [] out = "short" -> "done"
                             [] out = "error" -> "tally"
                 /\ rres' = IF out = "short" THEN "Err" ELSE rres
                 /\ collected' = IF out = "full" THEN collected + 1 ELSE collected
                 /\ pending' = IF out = "error" THEN pending ELSE pending - 1
                 /\ saw_short' = (saw_short \/ out = "short")
                 /\ saw_io' = (saw_io \/ out = "error")
    /\ UNCHANGED <<ringChannelVars, mqVars, devVars, buflen, mut_chunks_len, chunk_i,
                   requests, fills>>

\* mutant of RE_Tally: the count of collected chunks is not compared
RE_Tally_Always ==
    /\ rpc = "tally"
    /\ rpc' = "done"
    /\ rres' = "Ok"
    /\ UNCHANGED <<ringChannelVars, mqVars, devVars, buflen, mut_chunks_len, chunk_i,
                   collected, pending, requests, fills, saw_short, saw_io>>

\* ft60x.rs:135-141: ensure!(collected == mut_chunks_len, ..); Ok(())
RE_Tally ==
    /\ rpc = "tally"
    /\ rpc' = "done"
    /\ rres' = IF collected = mut_chunks_len THEN "Ok" ELSE "Err"
    /\ UNCHANGED <<ringChannelVars, mqVars, devVars, buflen, mut_chunks_len, chunk_i,
                   collected, pending, requests, fills, saw_short, saw_io>>

\* the call is over: its locals (the AsyncGroup with what it still holds
\* among them) are gone, the result is with the caller
RE_Leave ==
    /\ rpc' = "idle"
    /\ buflen' = 0
    /\ mut_chunks_len' = 0
    /\ chunk_i' = 0
    /\ collected' = 0
    /\ pending' = 0
    /\ requests' = <<>>
    /\ saw_short' = FALSE
    /\ saw_io' = FALSE
    /\ UNCHANGED <<rres, fills>>

\* read_exact returns to the owner of the FT60x
RE_Return ==
    /\ session = "direct"
    /\ rpc = "done"
    /\ RE_Leave
    /\ UNCHANGED <<ringChannelVars, mqVars, devVars>>

\* the steps of a read_exact that is under way
ReadExact ==
    \/ RE_Mode
    \/ RE_Next
    \/ RE_Wait
    \/ RE_Submit
    \/ RE_Drain
    \/ RE_Tally

\* ------------------------------------------------------------------------
\* Specification of an FT60x whose owner calls read_exact
\* ------------------------------------------------------------------------
FillInit ==
    /\ channel = "none"
    /\ capacity = 0
    /\ overflow_checks = FALSE
    /\ RingFresh
    /\ session = "direct"
    /\ bufsize = 0
    /\ NoMpsc
    /\ NoConfig
    /\ streaming_mode = FALSE
    /\ handshake = <<>>
    /\ ssm_pc = "idle"
    /\ NoFill

FillNext ==
    \/ RE_Call
    \/ SetStreamingMode
    \/ ReadExact
    \/ RE_Return

FillSpec == FillInit /\ [][FillNext]_vars

\* ------------------------------------------------------------------------
\* FT60x::data_stream_ringbuf (ft60x.rs:259-271): create_channel builds the
\* ring of RING_SLOTS buffers of bufsize bytes, the consumer goes to the
\* caller, and the worker thread runs
\*     while producer.with_next_buffer(|buf| self.read_exact(buf).unwrap())
\*         .is_ok() {}
\* with the actions of RingBufProducer and of read_exact
\* ------------------------------------------------------------------------
\* the buffer sizes a ring session is started with (no buffer is as long as
\* the window: read_exact never waits before it submits)
MaxRingChunks == 1
RingBufSizes == {0, MaxRingChunks * blocksize + 1}

\* ft60x.rs:264-266: the loop calls with_next_buffer, again after an Ok
W_Call ==
    /\ session = "ringbuf"
    /\ resP \in {"none", "Ok"}
    /\ P_Call

\* ft60x.rs:265: the callback calls self.read_exact(buf)
W_FillEnter ==
    /\ session = "ringbuf"
    /\ pcP = "func"
    /\ rpc = "idle"
    /\ fills = next_write_pos
    /\ RE_Enter(bufsize)
    /\ UNCHANGED <<ringChannelVars, mqVars, useVars, streaming_mode, handshake>>

\* ft60x.rs:265: read_exact has returned Ok and unwrap() hands that on
W_FillReturn ==
    /\ session = "ringbuf"
    /\ rpc = "done"
    /\ rres = "Ok"
    /\ RE_Leave
    /\ UNCHANGED <<ringChannelVars, mqVars, devVars>>

\* ft60x.rs:265 and ringbuf.rs:94: the callback returns
W_FuncEnd ==
    /\ session = "ringbuf"
    /\ rpc = "idle"
    /\ fills = next_write_pos + 1
    /\ rres = "Ok"
    /\ P_FuncEnd

\* mutant of W_FillPanic: the error of read_exact is dropped and the callback
\* returns
W_FillPanic_Swallow ==
    /\ session = "ringbuf"
    /\ pcP = "func"
    /\ rpc = "done"
    /\ rres = "Err"
    /\ RE_Leave
    /\ pcP' = "publish"
    /\ UNCHANGED <<ctorVars, ringVars, chanVars, consVars, devVars, mqVars, histVars,
                   next_write_pos, lastknown_last_read_pos, p_last_read_pos,
                   resP, cancelsP, cancelOutP>>

\* ft60x.rs:265: read_exact has returned Err and unwrap() panics inside the
\* callback: with_next_buffer is unwound before line 96, and so is the
\* thread's closure, which releases the producer it owns
\* (ringbuf.rs:103-105 with 70-71)
W_FillPanic ==
    /\ session = "ringbuf"
    /\ pcP = "func"
    /\ rpc = "done"
    /\ rres = "Err"
    /\ RE_Leave
    /\ resP' = "Panic"
    /\ one_was_dropped' = TRUE
    /\ cancelsP' = cancelsP + 1
    /\ cancelOutP' = "running"
    /\ pcP' = "drop_send"
    /\ recvBlockedAtDrop' = (pcC = "recv" /\ write_feed = <<>>)
    /\ UNCHANGED <<ctorVars, buffer, chanVars, consVars, devVars, mqVars,
                   next_write_pos, lastknown_last_read_pos, p_last_read_pos,
                   sendLog, recvLog, sendBlockedAtDrop>>

\* ringbuf.rs:97 with 103-105: with_next_buffer has panicked in its send;
\* the thread is unwound and its closure releases the producer
W_Unwind ==
    /\ session = "ringbuf"
    /\ pcP = "panicked"
    /\ one_was_dropped' = TRUE
    /\ cancelsP' = cancelsP + 1
    /\ cancelOutP' = "running"
    /\ pcP' = "drop_send"
    /\ recvBlockedAtDrop' = (pcC = "recv" /\ write_feed = <<>>)
    /\ UNCHANGED <<ctorVars, buffer, chanVars, consVars, extVars,
                   next_write_pos, lastknown_last_read_pos, p_last_read_pos, resP,
                   sendLog, recvLog, sendBlockedAtDrop>>

\* ft60x.rs:264-268: with_next_buffer has returned Err, the loop and the
\* closure end, the producer is released
W_Exit ==
    /\ session = "ringbuf"
    /\ resP = "Err"
    /\ P_Drop

\* the steps of the worker thread of a ring session
RingWorker ==
    \/ W_Call
    \/ P_Check
    \/ P_Recv
    \/ P_FuncStart
    \/ W_FillEnter
    \/ SetStreamingMode
    \/ RE_Mode
    \/ RE_Next
    \/ RE_Submit
    \/ RE_Drain
    \/ RE_Tally
    \/ W_FillReturn
    \/ W_FuncEnd
    \/ W_FillPanic
    \/ P_Publish
    \/ W_Unwind
    \/ W_Exit
    \/ P_CancelSend
    \/ P_DropSink
    \/ P_DropRecv

RingSessionInit ==
    /\ session = "ringbuf"
    /\ bufsize \in RingBufSizes
    /\ NoMpsc
    /\ NoConfig
    /\ channel = "requested"
    /\ capacity = RING_SLOTS
    /\ overflow_checks \in BOOLEAN
    /\ RingFresh
    /\ streaming_mode = FALSE
    /\ handshake = <<>>
    /\ ssm_pc = "idle"
    /\ NoFill

RingSessionNext ==
    \/ create_channel
    \/ RingWorker
    \/ C_Call
    \/ C_Cancel
    \/ C_Drop
    \/ ConsumerRun

RingSessionSpec == RingSessionInit /\ [][RingSessionNext]_vars

\* ------------------------------------------------------------------------
\* FT60x::data_stream_mpsc (ft60x.rs:146-256): two bounded queues of
\* buffers; the caller puts empty buffers on one and gets full buffers from
\* the other, the worker thread runs thread_fn().unwrap().
\*
\* A buffer is [id, len, sub, pend, full]: its length, the requests submitted
\* for it, the transfers its AsyncGroup holds, and the transfers handed back
\* with their full length. wait_any on a group hands back one of its
\* transfers, complete or short, or reports an error (NotFound when the
\* group holds no transfer).
\* ------------------------------------------------------------------------
\* buffers the caller puts on the empty-buffer queue
MaxBuffers == 3
\* largest bound of the queues
MaxInFlight == 1

InFlights == 1..MaxInFlight
\* the lengths of the caller's buffers: empty, short, longer than the window
MqBufLens == {0, blocksize + 1, (window + MaxOver) * blocksize + 1}

\* ---- the caller ----
\* empty_buffer_tx.send(buffer): blocks while the queue is full, Err once
\* the worker's Receiver is gone
U_Send ==
    /\ session = "mpsc"
    /\ empty_buffer_tx
    /\ sent < MaxBuffers
    /\ IF ~empty_buffer_rx
         THEN /\ send_res' = "Err"
              /\ UNCHANGED <<empty_buffers, sent>>
         ELSE /\ Len(empty_buffers) < in_flight_buffers
              /\ \E len \in MqBufLens :
                    empty_buffers' = Append(empty_buffers,
                        [NoBuffer EXCEPT !.id = sent + 1, !.len = len])
              /\ sent' = sent + 1
              /\ send_res' = "Ok"
    /\ UNCHANGED <<ringChannelVars, devVars, fillVars, workerVars,
                   full_buffers, empty_buffer_tx, empty_buffer_rx,
                   full_buffer_tx, full_buffer_rx, received, recv_res>>

\* the caller releases empty_buffer_tx: the empty-buffer queue is closed
U_Close ==
    /\ session = "mpsc"
    /\ empty_buffer_tx
    /\ empty_buffer_tx' = FALSE
    /\ UNCHANGED <<ringChannelVars, devVars, fillVars, workerVars, callerVars,
                   empty_buffers, full_buffers, empty_buffer_rx,
                   full_buffer_tx, full_buffer_rx>>

\* full_buffer_rx.recv(): the next full buffer; blocks while the queue is
\* empty, Err (disconnected) once it is empty and the worker's Sender is gone
U_Recv ==
    /\ session = "mpsc"
    /\ full_buffer_rx
    /\ IF full_buffers # <<>>
         THEN /\ received' = Append(received, Head(full_buffers))
              /\ full_buffers' = Tail(full_buffers)
              /\ recv_res' = "Ok"
         ELSE /\ ~full_buffer_tx
              /\ recv_res' = "Disconnected"
              /\ UNCHANGED <<received, full_buffers>>
    /\ UNCHANGED <<ringChannelVars, devVars, fillVars, workerVars,
                   empty_buffers, empty_buffer_tx, empty_buffer_rx,
                   full_buffer_tx, full_buffer_rx, sent, send_res>>

\* the caller releases full_buffer_rx, and with it the buffers in flight
U_DropFull ==
    /\ session = "mpsc"
    /\ full_buffer_rx
    /\ full_buffer_rx' = FALSE
    /\ full_buffers' = <<>>
    /\ UNCHANGED <<ringChannelVars, devVars, fillVars, workerVars, callerVars,
                   empty_buffers, empty_buffer_tx, empty_buffer_rx, full_buffer_tx>>

\* ---- the worker ----
\* ft60x.rs:154: self.set_streaming_mode() is called
M_Start ==
    /\ mpc = "start"
    /\ ssm_pc = "idle"
    /\ ssm_pc' = "enter"
    /\ mpc' = "mode"
    /\ UNCHANGED <<ringChannelVars, useVars, streaming_mode, handshake, fillVars,
                   queueVars, callerVars, mres, async_group_buffer,
                   current_buffer, outstanding, poll_i, to_ship, taken>>

\* the locals of thread_fn before it runs and once it is over: a return and
\* an unwinding release them, the buffers the worker still holds among them
NoLocals ==
    /\ async_group_buffer' = <<>>
    /\ current_buffer' = NoBuffer
    /\ outstanding' = 0
    /\ poll_i' = 0
    /\ to_ship' = None

\* thread_fn().unwrap() panics (an Err returned by ensure! or `?`, a failed
\* unwrap(), assert_eq! or panic!() inside) and the thread is unwound
Unwound(why) ==
    /\ mpc' = "panicked"
    /\ mres' = why
    /\ NoLocals

\* mutant of M_Mode: the result of set_streaming_mode is not looked at
M_Mode_NoUnwrap ==
    /\ mpc = "mode"
    /\ ssm_pc \in {"Ok", "Err"}
    /\ ssm_pc' = "idle"
    /\ mpc' = "take"
    /\ outstanding' = 0
    /\ UNCHANGED <<ringChannelVars, useVars, streaming_mode, handshake, fillVars,
                   queueVars, callerVars, mres, async_group_buffer, current_buffer,
                   poll_i, to_ship, taken>>

\* ft60x.rs:154-160: .unwrap() of the result; on Ok the locals are set up
M_Mode ==
    /\ mpc = "mode"
    /\ ssm_pc \in {"Ok", "Err"}
    /\ ssm_pc' = "idle"
    /\ IF ssm_pc = "Ok"
         THEN /\ mpc' = "take"
              /\ outstanding' = 0
              /\ UNCHANGED <<mres, async_group_buffer, current_buffer, poll_i, to_ship>>
         ELSE Unwound("handshake")
    /\ UNCHANGED <<ringChannelVars, useVars, streaming_mode, handshake, fillVars,
                   queueVars, callerVars, taken>>

\* ft60x.rs:161-162 and 218: empty_buffer_rx.iter() yields the next buffer,
\* blocks while the queue is empty, and ends once it is empty and the
\* caller's Sender is gone
M_Take ==
    /\ mpc = "take"
    /\ IF empty_buffers # <<>>
         THEN /\ current_buffer' = Head(empty_buffers)
              /\ empty_buffers' = Tail(empty_buffers)
              /\ taken' = Append(taken, Head(empty_buffers).id)
              /\ mpc' = "chunk"
              /\ UNCHANGED <<poll_i, to_ship>>
         ELSE /\ ~empty_buffer_tx
              /\ mpc' = "final"
              /\ to_ship' = None
              /\ poll_i' = 0
              /\ UNCHANGED <<current_buffer, empty_buffers, taken>>
    /\ UNCHANGED <<ringChannelVars, devVars, fillVars, callerVars, full_buffers,
                   empty_buffer_tx, empty_buffer_rx, full_buffer_tx, full_buffer_rx,
                   mres, async_group_buffer, outstanding>>

\* ft60x.rs:163-173 and 215: the next chunk of the current buffer and
\* `if outstanding > 500`, or, after the last chunk, the push onto
\* async_group_buffer
M_Chunk ==
    /\ mpc = "chunk"
    /\ IF current_buffer.sub = ChunksLen(current_buffer.len)
         THEN /\ async_group_buffer' = Append(async_group_buffer, current_buffer)
              /\ current_buffer' = NoBuffer
              /\ mpc' = "take"
              /\ UNCHANGED <<poll_i, to_ship>>
         ELSE IF outstanding > window
         THEN /\ mpc' = "poll"
              /\ to_ship' = None
              /\ poll_i' = 0
              /\ UNCHANGED <<async_group_buffer, current_buffer>>
         ELSE /\ mpc' = "submit"
              /\ UNCHANGED <<async_group_buffer, current_buffer, poll_i, to_ship>>
    /\ UNCHANGED <<ringChannelVars, devVars, fillVars, queueVars, callerVars,
                   mres, outstanding, taken>>

\* a buffer after wait_any on its group has handed back a transfer
Handed(b, out) ==
    CASE out = "full" -> [b EXCEPT !.pend = @ - 1, !.full = @ + 1]
      [] out = "short" -> [b EXCEPT !.pend = @ - 1]
      [] out = "error" -> b

\* mutant of Poll: the length of the transfer handed back is not compared
Poll_NoEnsure(final) ==
    LET n == Len(async_group_buffer)
        last == IF final THEN n - 1 ELSE n
        b == IF poll_i < n THEN async_group_buffer[poll_i + 1] ELSE current_buffer
        after == IF final THEN "final_ship" ELSE "ship"
    IN  IF poll_i > last
          THEN /\ mpc' = after
               /\ UNCHANGED <<mres, async_group_buffer, current_buffer,
                              outstanding, poll_i, to_ship>>
        ELSE IF b.pend = 0
          THEN IF to_ship # None \/ poll_i # 0
                 THEN Unwound("assert")
                 ELSE /\ to_ship' = poll_i
                      /\ poll_i' = poll_i + 1
                      /\ UNCHANGED <<mpc, mres, async_group_buffer,
                                     current_buffer, outstanding>>
        ELSE \E out \in {"full", "short", "error"} :
                CASE out \in {"full", "short"} ->
                        /\ mpc' = after
                        /\ async_group_buffer' =
                              IF poll_i < n
                                THEN [async_group_buffer EXCEPT
                                          ![poll_i + 1] = Handed(b, out)]
                                ELSE async_group_buffer
                        /\ current_buffer' =
                              IF poll_i < n THEN current_buffer ELSE Handed(b, out)
                        /\ outstanding' = IF final THEN outstanding ELSE outstanding - 1
                        /\ UNCHANGED <<mres, poll_i, to_ship>>
                  [] out = "error" -> Unwound("transport")

\* ft60x.rs:174-198 (in the loop) and 219-237 (after it): one turn of
\* `for (i, async_group) in ..`: wait_any on the group of index poll_i. The
\* groups are those of async_group_buffer, in the loop followed by
\* current_async_group
Poll(final) ==
    LET n == Len(async_group_buffer)
        last == IF final THEN n - 1 ELSE n
        b == IF poll_i < n THEN async_group_buffer[poll_i + 1] ELSE current_buffer
        after == IF final THEN "final_ship" ELSE "ship"
    IN  IF poll_i > last
          THEN /\ mpc' = after
               /\ UNCHANGED <<mres, async_group_buffer, current_buffer,
                              outstanding, poll_i, to_ship>>
        ELSE IF b.pend = 0
          THEN IF to_ship # None \/ poll_i # 0
                 THEN Unwound("assert")
                 ELSE /\ to_ship' = poll_i
                      /\ poll_i' = poll_i + 1
                      /\ UNCHANGED <<mpc, mres, async_group_buffer,
                                     current_buffer, outstanding>>
        ELSE \E out \in {"full", "short", "error"} :
                CASE out = "full" ->
                        /\ mpc' = after
                        /\ async_group_buffer' =
                              IF poll_i < n
                                THEN [async_group_buffer EXCEPT
                                          ![poll_i + 1] = Handed(b, out)]
                                ELSE async_group_buffer
                        /\ current_buffer' =
                              IF poll_i < n THEN current_buffer ELSE Handed(b, out)
                        /\ outstanding' = IF final THEN outstanding ELSE outstanding - 1
                        /\ UNCHANGED <<mres, poll_i, to_ship>>
                  [] out = "short" -> Unwound("short")
                  [] out = "error" -> Unwound("transport")

\* ft60x.rs:205 (in the loop: on to the submit) and 245 (after it: Ok(())
\* is returned and the locals are released), with rest left in
\* async_group_buffer
Shipped(final, rest) ==
    IF final
      THEN /\ mpc' = "returned"
           /\ mres' = "Ok"
           /\ NoLocals
      ELSE /\ mpc' = "submit"
           /\ async_group_buffer' = rest
           /\ UNCHANGED <<mres, current_buffer, outstanding, poll_i, to_ship>>

\* mutant of Ship: the buffer pushed is the youngest the worker holds
Ship_Youngest(final) ==
    LET n == Len(async_group_buffer)
    IN  IF to_ship # None /\ to_ship < n
          THEN IF ~full_buffer_rx
                 THEN /\ Unwound("send")
                      /\ UNCHANGED full_buffers
                 ELSE /\ Len(full_buffers) < in_flight_buffers
                      /\ full_buffers' = Append(full_buffers, async_group_buffer[n])
                      /\ Shipped(final, SubSeq(async_group_buffer, 1, n - 1))
          ELSE /\ Shipped(final, async_group_buffer)
               /\ UNCHANGED full_buffers

\* ft60x.rs:200-204 (in the loop) and 239-245 (after it, with Ok(())):
\* full_buffer_tx.send(async_group_buffer.remove(i).0).unwrap(), which
\* blocks while the queue is full and panics once the caller's Receiver is
\* gone
Ship(final) ==
    LET rest == [j \in 1..(Len(async_group_buffer) - 1) |->
                    IF j <= to_ship THEN async_group_buffer[j]
                    ELSE async_group_buffer[j + 1]]
    IN  IF to_ship # None /\ to_ship < Len(async_group_buffer)
          THEN IF ~full_buffer_rx
                 THEN /\ Unwound("send")
                      /\ UNCHANGED full_buffers
                 ELSE /\ Len(full_buffers) < in_flight_buffers
                      /\ full_buffers' =
                            Append(full_buffers, async_group_buffer[to_ship + 1])
                      /\ Shipped(final, rest)
          ELSE /\ Shipped(final, async_group_buffer)
               /\ UNCHANGED full_buffers

M_Poll ==
    /\ mpc = "poll"
    /\ Poll(FALSE)
    /\ UNCHANGED <<ringChannelVars, devVars, fillVars, queueVars, callerVars, taken>>

M_Ship ==
    /\ mpc = "ship"
    /\ Ship(FALSE)
    /\ UNCHANGED <<ringChannelVars, devVars, fillVars, callerVars, empty_buffers,
                   empty_buffer_tx, empty_buffer_rx, full_buffer_tx, full_buffer_rx,
                   taken>>

\* ft60x.rs:163-172, 207-213: the submits that follow one another with no
\* wait in between, up to the end of the buffer or to the submit that makes
\* `outstanding > 500` true (one submit after a wait)
SubmitRun ==
    LET rem == ChunksLen(current_buffer.len) - current_buffer.sub
        room == IF outstanding > window THEN 1 ELSE window + 1 - outstanding
    IN  IF rem < room THEN rem ELSE room

\* mutant of M_Submit: a submit that failed is tried again
M_Submit_Retry ==
    /\ mpc = "submit"
    /\ \E k \in 0..SubmitRun :
          /\ current_buffer' = [current_buffer EXCEPT !.sub = @ + k, !.pend = @ + k]
          /\ outstanding' = outstanding + k
          /\ mpc' = IF k = SubmitRun THEN "chunk" ELSE "submit"
          /\ mres' = IF k = SubmitRun THEN mres ELSE "submit"
    /\ UNCHANGED <<ringChannelVars, devVars, fillVars, queueVars, callerVars,
                   async_group_buffer, poll_i, to_ship, taken>>

\* ft60x.rs:207-213: current_async_group.submit(..)?; outstanding += 1; for
\* the chunks of a run of submits: the first k succeed, and the run is over
\* or the next submit fails and `?` returns its error. The submits of a run
\* touch nothing the caller's thread can see, so the run is one step
M_Submit ==
    /\ mpc = "submit"
    /\ \E k \in 0..SubmitRun :
          IF k = SubmitRun
            THEN /\ current_buffer' = [current_buffer EXCEPT !.sub = @ + k,
                                                             !.pend = @ + k]
                 /\ outstanding' = outstanding + k
                 /\ mpc' = "chunk"
                 /\ UNCHANGED <<mres, async_group_buffer, poll_i, to_ship>>
            ELSE Unwound("submit")
    /\ UNCHANGED <<ringChannelVars, devVars, fillVars, queueVars, callerVars, taken>>

M_FinalPoll ==
    /\ mpc = "final"
    /\ Poll(TRUE)
    /\ UNCHANGED <<ringChannelVars, devVars, fillVars, queueVars, callerVars, taken>>

M_FinalShip ==
    /\ mpc = "final_ship"
    /\ Ship(TRUE)
    /\ UNCHANGED <<ringChannelVars, devVars, fillVars, callerVars, empty_buffers,
                   empty_buffer_tx, empty_buffer_rx, full_buffer_tx, full_buffer_rx,
                   taken>>

\* ft60x.rs:250-252: the thread's closure is over, by return or by panic, and
\* what it owns is released: the Receiver of the empty-buffer queue (with
\* the buffers in flight) and the Sender of the full-buffer queue
M_DropEmptyRx ==
    /\ mpc \in {"returned", "panicked"}
    /\ empty_buffer_rx
    /\ empty_buffer_rx' = FALSE
    /\ empty_buffers' = <<>>
    /\ UNCHANGED <<ringChannelVars, devVars, fillVars, workerVars, callerVars,
                   full_buffers, empty_buffer_tx, full_buffer_tx, full_buffer_rx>>

\* mutant of M_DropFullTx: the Sender of the full-buffer queue is kept
M_DropFullTx_Leak ==
    /\ mpc \in {"returned", "panicked"}
    /\ full_buffer_tx
    /\ UNCHANGED vars

M_DropFullTx ==
    /\ mpc \in {"returned", "panicked"}
    /\ full_buffer_tx
    /\ full_buffer_tx' = FALSE
    /\ UNCHANGED <<ringChannelVars, devVars, fillVars, workerVars, callerVars,
                   empty_buffers, full_buffers, empty_buffer_tx, empty_buffer_rx,
                   full_buffer_rx>>

\* the steps of the worker thread of a recycling session
MpscWorker ==
    \/ M_Start
    \/ M_Mode
    \/ M_Take
    \/ M_Chunk
    \/ M_Poll
    \/ M_Ship
    \/ M_Submit
    \/ M_FinalPoll
    \/ M_FinalShip
    \/ M_DropEmptyRx
    \/ M_DropFullTx

\* the operations of the caller of a recycling session
MpscCaller ==
    \/ U_Send
    \/ U_Close
    \/ U_Recv
    \/ U_DropFull

\* the state in which data_stream_mpsc returns
MpscInit ==
    /\ channel = "none"
    /\ capacity = 0
    /\ overflow_checks = FALSE
    /\ RingFresh
    /\ session = "mpsc"
    /\ bufsize = 0
    /\ NoConfig
    /\ in_flight_buffers \in InFlights
    /\ streaming_mode = FALSE
    /\ handshake = <<>>
    /\ ssm_pc = "idle"
    /\ NoFill
    /\ empty_buffers = <<>>
    /\ full_buffers = <<>>
    /\ empty_buffer_tx = TRUE
    /\ empty_buffer_rx = TRUE
    /\ full_buffer_tx = TRUE
    /\ full_buffer_rx = TRUE
    /\ mpc = "start"
    /\ mres = "none"
    /\ async_group_buffer = <<>>
    /\ current_buffer = NoBuffer
    /\ outstanding = 0
    /\ poll_i = 0
    /\ to_ship = None
    /\ sent = 0
    /\ taken = <<>>
    /\ received = <<>>
    /\ send_res = "none"
    /\ recv_res = "none"

MpscNext ==
    \/ SetStreamingMode
    \/ MpscWorker
    \/ MpscCaller

MpscSpec == MpscInit /\ [][MpscNext]_vars

\* ------------------------------------------------------------------------
\* Specification of a streaming session of either kind
\* ------------------------------------------------------------------------
StreamInit == RingSessionInit \/ MpscInit

StreamNext ==
    \/ RingSessionNext
    \/ MpscWorker
    \/ MpscCaller

StreamSpec == StreamInit /\ [][StreamNext]_vars

\* the release of what a worker thread owns, once the thread has returned or
\* is unwound
WorkerRelease ==
    \/ P_CancelSend
    \/ P_DropSink
    \/ P_DropRecv
    \/ M_DropEmptyRx
    \/ M_DropFullTx

\* a worker thread that ends is run to its end, and the thread of the ring's
\* consumer is scheduled: a step of an operation under way that can be taken
\* is eventually taken (nothing is assumed of the device, nor of the caller
\* of a recycling session)
FairStreamSpec == StreamSpec /\ WF_vars(WorkerRelease) /\ WF_vars(ConsumerRun)

\* ------------------------------------------------------------------------
\* FT60xConfig (ft60x_config.rs): the configuration record and its encoding
\* ------------------------------------------------------------------------

\* the widths in bytes of what parse reads and encode writes, in their order:
\* vid, pid, strings_buf, reserved1, power_attributes, power_consumption,
\* reserved2, fifo_clock, fifo_mode, channel_config,
\* optional_features_support, battery_charging_gpio_config,
\* flash_eeprom_detection, msio_config, gpio_config
Layout == <<2, 2, STRINGS_LEN, 1, 1, 2, 1, 1, 1, 1, 2, 1, 1, 4, 4>>

\* the position of the cursor before its k-th read or write
RECURSIVE CursorAt(_)
CursorAt(k) == IF k = 1 THEN 0 ELSE CursorAt(k - 1) + Layout[k - 1]

\* write_u8 / write_u16::<LittleEndian>
LittleEndian(v, width) == [i \in 1..width |-> (v \div (256 ^ (i - 1))) % 256]

\* read_u8 / read_u16::<LittleEndian>
RECURSIVE ReadLittleEndian(_)
ReadLittleEndian(bytes) ==
    IF bytes = <<>> THEN 0 ELSE Head(bytes) + 256 * ReadLittleEndian(Tail(bytes))

\* a u32 is the pair <<low, high>> of its 16-bit halves, of value
\* low + 65536 * high
\* write_u32::<LittleEndian>
LittleEndian32(v) == LittleEndian(v[1], 2) \o LittleEndian(v[2], 2)

\* read_u32::<LittleEndian>
ReadLittleEndian32(bytes) ==
    <<ReadLittleEndian(SubSeq(bytes, 1, 2)), ReadLittleEndian(SubSeq(bytes, 3, 4))>>

\* the k-th item parse reads from the cursor
ReadField(bytes, k) == SubSeq(bytes, CursorAt(k) + 1, CursorAt(k) + Layout[k])

\* FT60xFifoMode::encode and FT60xFifoMode::parse
FifoModeEncode(mode) ==
    CASE mode = "Mode245" -> 0
      [] mode = "Mode600" -> 1

FifoModeParse(num) ==
    CASE num = 0 -> "Mode245"
      [] num = 1 -> "Mode600"
      [] OTHER -> "Err"

\* FT60xFifoClock::encode and FT60xFifoClock::parse
FifoClockEncode(clock) ==
    CASE clock = "Clock100MHz" -> 0
      [] clock = "Clock66MHz" -> 1
      [] clock = "Clock50MHz" -> 2
      [] clock = "Clock40MHz" -> 3

FifoClockParse(num) ==
    CASE num = 0 -> "Clock100MHz"
      [] num = 1 -> "Clock66MHz"
      [] num = 2 -> "Clock50MHz"
      [] num = 3 -> "Clock40MHz"
      [] OTHER -> "Err"

\* FT60xChannelConfig::encode and FT60xChannelConfig::parse
ChannelConfigEncode(cc) ==
    CASE cc = "FourChannels" -> 0
      [] cc = "TwoChannels" -> 1
      [] cc = "OneChannel" -> 2
      [] cc = "OneChannelOutPipe" -> 3
      [] cc = "OneChannelInPipe" -> 4

ChannelConfigParse(num) ==
    CASE num = 0 -> "FourChannels"
      [] num = 1 -> "TwoChannels"
      [] num = 2 -> "OneChannel"
      [] num = 3 -> "OneChannelOutPipe"
      [] num = 4 -> "OneChannelInPipe"
      [] OTHER -> "Err"

\* flags & (1 << bit), as 0 or 1
FlagBit(flags, bit) == (flags \div (2 ^ bit)) % 2

\* mutant of FlashRomDetectionParse: gpio_input and config_used are read from
\* each other's bit
FlashRomDetectionParse_Swapped(flags) ==
    [memory_type            |-> IF FlagBit(flags, 0) = 0 THEN "Flash" ELSE "ROM",
     memory_status          |-> IF FlagBit(flags, 1) = 0 THEN "Exists" ELSE "ExistsNot",
     custom_config_validity |-> IF FlagBit(flags, 2) = 0 THEN "Valid" ELSE "Invalid",
     custom_config_checksum |-> IF FlagBit(flags, 3) = 0 THEN "Valid" ELSE "Invalid",
     config_used            |-> IF FlagBit(flags, 5) = 0 THEN "Default" ELSE "Custom",
     gpio_input             |-> IF FlagBit(flags, 4) = 0 THEN "Ignore" ELSE "Used",
     gpio0                  |-> IF FlagBit(flags, 6) = 0 THEN "Low" ELSE "High",
     gpio1                  |-> IF FlagBit(flags, 7) = 0 THEN "Low" ELSE "High"]

\* FT60xFlashRomDetection::parse
FlashRomDetectionParse(flags) ==
    [memory_type            |-> IF FlagBit(flags, 0) = 0 THEN "Flash" ELSE "ROM",
     memory_status          |-> IF FlagBit(flags, 1) = 0 THEN "Exists" ELSE "ExistsNot",
     custom_config_validity |-> IF FlagBit(flags, 2) = 0 THEN "Valid" ELSE "Invalid",
     custom_config_checksum |-> IF FlagBit(flags, 3) = 0 THEN "Valid" ELSE "Invalid",
     config_used            |-> IF FlagBit(flags, 4) = 0 THEN "Default" ELSE "Custom",
     gpio_input             |-> IF FlagBit(flags, 5) = 0 THEN "Ignore" ELSE "Used",
     gpio0                  |-> IF FlagBit(flags, 6) = 0 THEN "Low" ELSE "High",
     gpio1                  |-> IF FlagBit(flags, 7) = 0 THEN "Low" ELSE "High"]

\* FT60xFlashRomDetection::encode: the bits are distinct, so |= adds them
FlashRomDetectionEncode(f) ==
      (IF f.memory_type = "ROM" THEN 2 ^ 0 ELSE 0)
    + (IF f.memory_status = "ExistsNot" THEN 2 ^ 1 ELSE 0)
    + (IF f.custom_config_validity = "Invalid" THEN 2 ^ 2 ELSE 0)
    + (IF f.custom_config_checksum = "Invalid" THEN 2 ^ 3 ELSE 0)
    + (IF f.config_used = "Custom" THEN 2 ^ 4 ELSE 0)
    + (IF f.gpio_input = "Used" THEN 2 ^ 5 ELSE 0)
    + (IF f.gpio0 = "High" THEN 2 ^ 6 ELSE 0)
    + (IF f.gpio1 = "High" THEN 2 ^ 7 ELSE 0)

\* encode_string (ft60x_config.rs:110-123): what it writes when the cursor
\* has room for all of it; a string is the sequence of its bytes
encode_string(string) ==
    LET length == Len(string)
        offset == (length + 1) * 2
    IN  <<offset % 256, STRING_TAG>>
            \o [j \in 1..(2 * length) |->
                    IF j % 2 = 1 THEN string[(j + 1) \div 2] ELSE 0]

\* FT60xConfig::encode: a write_u8 beyond the end of strings_buf is an
\* error that the ? returns; the rest of strings_buf stays zero
encode(c) ==
    LET strings == encode_string(c.manufacturer)
                       \o encode_string(c.product_description)
                       \o encode_string(c.serial_number)
    IN  IF Len(strings) > STRINGS_LEN
        THEN [res |-> "Err", bytes |-> <<>>]
        ELSE [res |-> "Ok",
              bytes |->
                     LittleEndian(c.vid, Layout[1])
                  \o LittleEndian(c.pid, Layout[2])
                  \o strings \o [j \in 1..(STRINGS_LEN - Len(strings)) |-> 0]
                  \o LittleEndian(c.reserved1, Layout[4])
                  \o LittleEndian(c.power_attributes, Layout[5])
                  \o LittleEndian(c.power_consumption, Layout[6])
                  \o LittleEndian(c.reserved2, Layout[7])
                  \o LittleEndian(FifoClockEncode(c.fifo_clock), Layout[8])
                  \o LittleEndian(FifoModeEncode(c.fifo_mode), Layout[9])
                  \o LittleEndian(ChannelConfigEncode(c.channel_config), Layout[10])
                  \o LittleEndian(c.optional_features_support, Layout[11])
                  \o LittleEndian(c.battery_charging_gpio_config, Layout[12])
                  \o LittleEndian(FlashRomDetectionEncode(c.flash_eeprom_detection),
                                  Layout[13])
                  \o LittleEndian32(c.msio_config)
                  \o LittleEndian32(c.gpio_config)]

\* what stops the i-th round of the loop of parse_string, if anything: an
\* index beyond the slice panics, a byte that is not UTF-8 on its own and a
\* pad byte that is not zero are errors. bytes[k] of the slice is the
\* (k + 1)-th element of the sequence.
CharFault(bytes, i) ==
    IF 2 * i + 2 >= Len(bytes) THEN "Panic"
    ELSE IF bytes[(2 * i + 2) + 1] >= 128 THEN "Err"
    ELSE IF 2 * i + 3 >= Len(bytes) THEN "Panic"
    ELSE IF bytes[(2 * i + 3) + 1] # 0 THEN "Err"
    ELSE "Ok"

\* parse_string (ft60x_config.rs:36-49): offset - 2 on a u8 panics when the
\* build checks overflow and wraps otherwise
parse_string(bytes) ==
    IF Len(bytes) = 0 THEN [res |-> "Panic", str |-> <<>>, offset |-> 0]
    ELSE
    LET offset == bytes[0 + 1]
        length == ((offset + 256 - 2) % 256) \div 2
        faults == {i \in 0..(length - 1) : CharFault(bytes, i) # "Ok"}
        first  == CHOOSE i \in faults : \A j \in faults : i <= j
        failed(why) == [res |-> why, str |-> <<>>, offset |-> offset]
    IN  IF offset < 2 /\ overflow_checks THEN failed("Panic")
        ELSE IF Len(bytes) < 2 THEN failed("Panic")
        ELSE IF bytes[1 + 1] # STRING_TAG THEN failed("Err")
        ELSE IF faults # {} THEN failed(CharFault(bytes, first))
        ELSE [res |-> "Ok",
              str |-> [j \in 1..length |-> bytes[(2 * (j - 1) + 2) + 1]],
              offset |-> offset]

\* FT60xConfig::parse: the outcome and, when it is Ok, the record
parse(bytes) ==
    LET strings_buf == ReadField(bytes, 3)
        \* &strings_buf[offset..]
        SliceFrom(offset) == SubSeq(strings_buf, offset + 1, STRINGS_LEN)
        s1   == parse_string(SliceFrom(0))
        off1 == s1.offset
        s2   == parse_string(SliceFrom(off1))
        off2 == off1 + s2.offset
        s3   == parse_string(SliceFrom(off2))
        fifo_clock     == FifoClockParse(ReadLittleEndian(ReadField(bytes, 8)))
        fifo_mode      == FifoModeParse(ReadLittleEndian(ReadField(bytes, 9)))
        channel_config == ChannelConfigParse(ReadLittleEndian(ReadField(bytes, 10)))
        res ==
            IF s1.res # "Ok" THEN s1.res
            ELSE IF off1 > STRINGS_LEN THEN "Panic"
            ELSE IF s2.res # "Ok" THEN s2.res
            ELSE IF off2 > STRINGS_LEN THEN "Panic"
            ELSE IF s3.res # "Ok" THEN s3.res
            ELSE IF "Err" \in {fifo_clock, fifo_mode, channel_config} THEN "Err"
            ELSE "Ok"
    IN  IF res # "Ok" THEN [res |-> res, cfg |-> <<>>]
        ELSE [res |-> "Ok",
              cfg |-> <<[vid |-> ReadLittleEndian(ReadField(bytes, 1)),
                         pid |-> ReadLittleEndian(ReadField(bytes, 2)),
                         manufacturer |-> s1.str,
                         product_description |-> s2.str,
                         serial_number |-> s3.str,
                         power_attributes |-> ReadLittleEndian(ReadField(bytes, 5)),
                         power_consumption |-> ReadLittleEndian(ReadField(bytes, 6)),
                         fifo_clock |-> fifo_clock,
                         fifo_mode |-> fifo_mode,
                         channel_config |-> channel_config,
                         optional_features_support |->
                             ReadLittleEndian(ReadField(bytes, 11)),
                         battery_charging_gpio_config |->
                             ReadLittleEndian(ReadField(bytes, 12)),
                         flash_eeprom_detection |->
                             FlashRomDetectionParse(ReadLittleEndian(ReadField(bytes, 13))),
                         msio_config |-> ReadLittleEndian32(ReadField(bytes, 14)),
                         gpio_config |-> ReadLittleEndian32(ReadField(bytes, 15)),
                         reserved1 |-> ReadLittleEndian(ReadField(bytes, 4)),
                         reserved2 |-> ReadLittleEndian(ReadField(bytes, 7))]>>]

\* ------------------------------------------------------------------------
\* The configuration exchange: FT60xConfig::encode, FT60xConfig::parse,
\* FT60x::get_config and FT60x::set_config
\* ------------------------------------------------------------------------

\* the longest string that fits strings_buf next to two empty ones
MaxStringLen == (STRINGS_LEN - 3 * 2) \div 2

\* an ASCII string of n bytes
Ascii(n) == [i \in 1..n |-> (i * 37 + n) % 128]

\* the strings of a record: ASCII ones of length 0, 1, half the maximum and
\* the maximum, and one that is not ASCII (the two bytes of U+00E9)
Strings == {Ascii(n) : n \in {0, 1, MaxStringLen \div 2, MaxStringLen}}
               \cup {<<195, 169>>}

\* the values of the integer fields: all zero, and all at or near the top of
\* their types
Scalars ==
    {[vid |-> 0, pid |-> 0, power_attributes |-> 0, power_consumption |-> 0,
      optional_features_support |-> 0, battery_charging_gpio_config |-> 0,
      msio_config |-> <<0, 0>>, gpio_config |-> <<0, 0>>,
      reserved1 |-> 0, reserved2 |-> 0],
     [vid |-> 1027, pid |-> 24607, power_attributes |-> 224,
      power_consumption |-> 65535, optional_features_support |-> 65280,
      battery_charging_gpio_config |-> 255, msio_config |-> <<65535, 65535>>,
      gpio_config |-> <<256, 32768>>, reserved1 |-> 255, reserved2 |-> 1]}

\* the values of the three enums of a record
Enums ==
    [fifo_clock : {"Clock100MHz", "Clock66MHz", "Clock50MHz", "Clock40MHz"},
     fifo_mode : {"Mode245", "Mode600"},
     channel_config : {"FourChannels", "TwoChannels", "OneChannel",
                       "OneChannelOutPipe", "OneChannelInPipe"}]

\* every FT60xFlashRomDetection
FlashRomDetections ==
    [memory_type : {"Flash", "ROM"},
     memory_status : {"Exists", "ExistsNot"},
     custom_config_validity : {"Valid", "Invalid"},
     custom_config_checksum : {"Valid", "Invalid"},
     config_used : {"Default", "Custom"},
     gpio_input : {"Ignore", "Used"},
     gpio0 : {"Low", "High"},
     gpio1 : {"Low", "High"}]

\* struct FT60xConfig (ft60x_config.rs:6-24)
FT60xConfig(sc, m, p, s, e, f) ==
    [vid |-> sc.vid,
     pid |-> sc.pid,
     manufacturer |-> m,
     product_description |-> p,
     serial_number |-> s,
     power_attributes |-> sc.power_attributes,
     power_consumption |-> sc.power_consumption,
     fifo_clock |-> e.fifo_clock,
     fifo_mode |-> e.fifo_mode,
     channel_config |-> e.channel_config,
     optional_features_support |-> sc.optional_features_support,
     battery_charging_gpio_config |-> sc.battery_charging_gpio_config,
     flash_eeprom_detection |-> f,
     msio_config |-> sc.msio_config,
     gpio_config |-> sc.gpio_config,
     reserved1 |-> sc.reserved1,
     reserved2 |-> sc.reserved2]

\* the records the exchange is run on: every choice of the strings with
\* each choice of the integers; and, with strings that fill strings_buf,
\* every choice of the enums and every choice of the flags
Configs ==
    LET PlainEnums ==
            [fifo_clock |-> "Clock100MHz", fifo_mode |-> "Mode245",
             channel_config |-> "FourChannels"]
        PlainFlags ==
            [memory_type |-> "Flash", memory_status |-> "Exists",
             custom_config_validity |-> "Valid", custom_config_checksum |-> "Valid",
             config_used |-> "Default", gpio_input |-> "Ignore",
             gpio0 |-> "Low", gpio1 |-> "Low"]
        TopScalars == CHOOSE sc \in Scalars : sc.vid # 0
        Half == Ascii(MaxStringLen \div 2)
    IN  {FT60xConfig(sc, m, p, s, PlainEnums, PlainFlags) :
             sc \in Scalars, m \in Strings, p \in Strings, s \in Strings}
        \cup
        {FT60xConfig(TopScalars, Half, Half, Ascii(1), e, f) :
             e \in Enums,
             f \in {PlainFlags,
                    [PlainFlags EXCEPT !.gpio_input = "Used", !.gpio1 = "High"]}}
        \cup
        {FT60xConfig(TopScalars, Half, Half, Ascii(1),
                     [PlainEnums EXCEPT !.fifo_mode = "Mode600"], f) :
             f \in FlashRomDetections}

\* the byte counts a control transfer of CONFIG_LEN bytes reports
Counts == {0, CONFIG_LEN - 1, CONFIG_LEN}

\* what a device may hold in place of a well-formed image: one byte of the
\* image, given by its index, has another value
Garbles ==
    {<<CursorAt(3), 0>>, <<CursorAt(3), 255>>, <<CursorAt(3) + 1, 0>>,
     <<CursorAt(3) + 2, 200>>, <<CursorAt(3) + 3, 1>>,
     <<CursorAt(8), 4>>, <<CursorAt(9), 2>>, <<CursorAt(10), 5>>}

\* everything a configuration exchange leaves alone
notCfgVars == <<ringChannelVars, session, bufsize, in_flight_buffers,
                streaming_mode, handshake, ssm_pc, fillVars, mqVars, config>>

\* an FT60x is open with a record at hand; for get_config the record is the
\* one the device holds
ConfigInit ==
    /\ channel = "none"
    /\ capacity = 0
    /\ overflow_checks \in BOOLEAN
    /\ RingFresh
    /\ session = "config"
    /\ bufsize = 0
    /\ NoMpsc
    /\ streaming_mode = FALSE
    /\ handshake = <<>>
    /\ ssm_pc = "idle"
    /\ NoFill
    /\ config \in {<<c>> : c \in Configs}
    /\ wire = <<>>
    /\ enc_res = "none"
    /\ parsed = <<>>
    /\ dec_res = "none"
    /\ ctl = NoControl

\* FT60xConfig::encode on the record at hand
Cfg_Encode ==
    /\ session = "config"
    /\ enc_res = "none"
    /\ ctl = NoControl
    /\ LET e == encode(config[1])
       IN  /\ enc_res' = e.res
           /\ wire' = e.bytes
    /\ UNCHANGED <<notCfgVars, parsed, dec_res, ctl>>

\* FT60xConfig::parse on the bytes encode returned
Cfg_Parse ==
    /\ session = "config"
    /\ enc_res = "Ok"
    /\ dec_res = "none"
    /\ ctl = NoControl
    /\ LET d == parse(wire)
       IN  /\ dec_res' = d.res
           /\ parsed' = d.cfg
    /\ UNCHANGED <<notCfgVars, wire, enc_res, ctl>>

\* what the device answers to the read of get_config: a transfer error
\* (count None), a short count of the image it holds, or the whole of an
\* image that is well formed or garbled
Answers(image) ==
    {[count |-> None, buf |-> <<>>]}
        \cup {[count |-> n,
               \* buf = [0; 152] with the first n bytes read
               buf |-> [j \in 1..CONFIG_LEN |-> IF j <= n THEN image[j] ELSE 0]] :
                   n \in Counts}
        \cup {[count |-> CONFIG_LEN, buf |-> [image EXCEPT ![g[1] + 1] = g[2]]] :
                   g \in Garbles}

\* mutant of GetConfig: the ensure! on the count is missing
GetConfig_NoEnsure ==
    /\ session = "config"
    /\ enc_res = "none"
    /\ ctl = NoControl
    /\ encode(config[1]).res = "Ok"
    /\ \E a \in Answers(encode(config[1]).bytes) :
          IF a.count = None
          THEN /\ ctl' = [op |-> "get", count |-> None, res |-> "Err"]
               /\ UNCHANGED <<wire, parsed, dec_res>>
          ELSE LET d == parse(a.buf)
               IN  /\ wire' = a.buf
                   /\ dec_res' = d.res
                   /\ parsed' = d.cfg
                   /\ ctl' = [op |-> "get", count |-> a.count, res |-> d.res]
    /\ UNCHANGED <<notCfgVars, enc_res>>

\* FT60x::get_config (ft60x.rs:49-62)
GetConfig ==
    /\ session = "config"
    /\ enc_res = "none"
    /\ ctl = NoControl
    /\ encode(config[1]).res = "Ok"
    /\ \E a \in Answers(encode(config[1]).bytes) :
          IF a.count = None
          THEN \* ft60x.rs:58   read_control(..)?
               /\ ctl' = [op |-> "get", count |-> None, res |-> "Err"]
               /\ UNCHANGED <<wire, parsed, dec_res>>
          ELSE IF a.count # CONFIG_LEN
          THEN \* ft60x.rs:60   ensure!(read == 152, ..)
               /\ wire' = a.buf
               /\ ctl' = [op |-> "get", count |-> a.count, res |-> "Err"]
               /\ UNCHANGED <<parsed, dec_res>>
          ELSE \* ft60x.rs:61   FT60xConfig::parse(buf)
               LET d == parse(a.buf)
               IN  /\ wire' = a.buf
                   /\ dec_res' = d.res
                   /\ parsed' = d.cfg
                   /\ ctl' = [op |-> "get", count |-> a.count, res |-> d.res]
    /\ UNCHANGED <<notCfgVars, enc_res>>

\* FT60x::set_config (ft60x.rs:64-77): written is None when write_control
\* reports an error
SetConfig ==
    /\ session = "config"
    /\ enc_res = "none"
    /\ ctl = NoControl
    /\ LET e == encode(config[1])
       IN  IF e.res # "Ok"
           THEN \* ft60x.rs:65   config.encode()?
                /\ enc_res' = e.res
                /\ ctl' = [op |-> "set", count |-> None, res |-> "Err"]
                /\ UNCHANGED wire
           ELSE \E written \in {None} \cup Counts :
                    /\ enc_res' = "Ok"
                    /\ wire' = e.bytes
                    /\ ctl' = [op |-> "set", count |-> written,
                               res |-> IF written = CONFIG_LEN THEN "Ok" ELSE "Err"]
    /\ UNCHANGED <<notCfgVars, parsed, dec_res>>

ConfigNext ==
    \/ Cfg_Encode
    \/ Cfg_Parse
    \/ GetConfig
    \/ SetConfig

ConfigSpec == ConfigInit /\ [][ConfigNext]_vars

\* ------------------------------------------------------------------------
\* Notions the properties are stated in
\* ------------------------------------------------------------------------
\* read_exact is at its return, with its locals as they are at that point
FillReturns == rpc = "done"

\* the transfers that have been submitted and not handed back by wait_any
Outstanding == pending

\* every request this call has submitted came back with its full length
AllCompletedFull == collected = Len(requests)

\* the operations of the handshake that succeeded, in order
HandshakeDone == SelectSeq(handshake, LAMBDA op : op[Len(op)] = "Ok")

\* a read_exact of the ring session's worker has returned Err (a failed
\* handshake included), and unwrap() has panicked
RingFillFailed == session = "ringbuf" /\ rres = "Err" /\ rpc = "idle"

\* the recycling worker has ended on a failed handshake, submit or transfer
MpscFailed == mres \in {"handshake", "submit", "short", "transport"}

\* the buffers the recycling worker has pushed onto the full-buffer queue and
\* that still exist, in the order of the pushes
Pushed == received \o full_buffers

\* every request of buffer b has been submitted and has come back complete
Filled(b) == b.sub = ChunksLen(b.len) /\ b.full = b.sub /\ b.pend = 0

\* the recycling worker has submitted a request
MpscSubmitted ==
    \/ current_buffer.sub > 0
    \/ \E j \in 1..Len(async_group_buffer) : async_group_buffer[j].sub > 0
    \/ \E j \in 1..Len(Pushed) : Pushed[j].sub > 0

\* the consumer of the ring session has begun to release its endpoint
ConsumerReleased == pcC \in {"drop_send", "drop_recv", "drop_sink", "dropped"}

\* the producer of the ring session's worker is being released or is gone
WorkerEnding == pcP \in {"drop_send", "drop_sink", "drop_recv", "dropped", "aborted"}

\* the handshake as it is when nothing fails
WholeHandshake == <<ClaimOp(0, TRUE), ClaimOp(1, TRUE), WriteOp(TRUE)>>

\* the producer waits in recv() for an acknowledgement that is not there
ProducerBlocked == pcP = "recv" /\ ack_feed = <<>> /\ ack_tx

\* the consumer waits in recv() for a position that is not there
ConsumerBlocked == pcC = "recv" /\ write_feed = <<>> /\ write_tx

\* how many buffers the consumer has acknowledged (line 157 executed)
AckedCount == IF pcC = "advance" THEN next_read_pos + 1 ELSE next_read_pos

\* a step of cancel() on the producer, on the consumer
CancelStepP == cancelsP' # cancelsP \/ cancelOutP' # cancelOutP
CancelStepC == cancelsC' # cancelsC \/ cancelOutC' # cancelOutC

\* ------------------------------------------------------------------------
\* Properties
\* ------------------------------------------------------------------------
\* C1: without cancellation and for a capacity of at least 2, the contents
\* handed to the receive callbacks are, in order, the contents written by the
\* sends that have completed (the k-th receive gets the k-th send's content,
\* and only once that send has published its position), and the slot keeps
\* that content while the receive callback runs.
C1_Fifo ==
    (channel = "created" /\ capacity >= 2 /\ ~one_was_dropped) =>
        /\ Len(recvLog) <= Len(sendLog)
        /\ \A k \in 1..Len(recvLog) : recvLog[k] = sendLog[k]
        /\ \A k \in 1..Len(recvLog) : recvLog[k] = Item(k - 1)
        /\ pcC = "func" => buffer[next_read_pos % capacity] = recvLog[Len(recvLog)]

\* a third buffer is being received from a ring of two slots, so a slot has
\* been reused
C1_Witness ==
    /\ capacity = 2
    /\ ~one_was_dropped
    /\ pcC = "func"
    /\ Len(recvLog) = 3
    /\ recvLog[3] = sendLog[3]

\* C2: in a ring of capacity N >= 2, the producer's callback runs on the slot
\* of buffer k >= N only when the consumer has acknowledged buffer k - N.
C2_NoOverwriteBeforeAck ==
    (channel = "created" /\ capacity >= 2 /\ pcP = "func"
        /\ next_write_pos >= capacity) =>
        AckedCount > next_write_pos - capacity

\* C3: in a ring of capacity N >= 2, read_pos <= write_pos <= read_pos + N in
\* every state; write_pos advances only from a state with
\* write_pos - read_pos < N, read_pos only from a state with
\* read_pos < write_pos.
C3_PositionInvariant ==
    /\ [](channel = "created" /\ capacity >= 2 =>
            /\ next_read_pos <= next_write_pos
            /\ next_write_pos <= next_read_pos + capacity)
    /\ [][capacity >= 2 =>
            /\ next_write_pos' # next_write_pos =>
                  next_write_pos - next_read_pos < capacity
            /\ next_read_pos' # next_read_pos =>
                  next_read_pos < next_write_pos]_vars

\* C4: the two callbacks never run on the same slot at the same time.
C4_DisjointSlots ==
    (pcP = "func" /\ pcC = "func") =>
        next_write_pos % capacity # next_read_pos % capacity

\* both callbacks run, the producer's on a slot it has written before
C4_Witness ==
    /\ pcP = "func"
    /\ pcC = "func"
    /\ next_write_pos >= capacity

\* C5: in a ring of capacity N >= 2, a send that was blocked when the
\* consumer was released returns cancelled: it is still waiting, or it has
\* returned Err (and so has every later send).
C5_BlockedSendCancelled ==
    (capacity >= 2 /\ sendBlockedAtDrop) =>
        (pcP \in {"recv", "check"} \/ resP = "Err")

\* C6: a receive that was blocked when the producer was released does not
\* enter its callback, and eventually returns Err (no receive has returned
\* Err before the release: one that finds the flag set never blocks).
C6_BlockedRecvCancelled ==
    /\ [](recvBlockedAtDrop => (pcC \in {"recv", "check"} \/ resC = "Err"))
    /\ (recvBlockedAtDrop ~> resC = "Err")

\* the receive that was blocked at the release has returned Err
C6_Witness ==
    /\ recvBlockedAtDrop
    /\ pcC = "idle"
    /\ resC = "Err"
    /\ pcP = "dropped"

\* C7: without cancellation and for a capacity of at least 2, the producer
\* and the consumer are never both blocked.
C7_NoDeadlock ==
    (channel = "created" /\ capacity >= 2 /\ ~one_was_dropped) =>
        ~(ProducerBlocked /\ ConsumerBlocked)

\* the producer is blocked on a full ring whose slots have all been reused
C7_Witness ==
    /\ capacity >= 2
    /\ ~one_was_dropped
    /\ ProducerBlocked
    /\ next_write_pos > capacity
    /\ pcC = "idle"

\* C8: in a ring of capacity N >= 2, a second cancel() on an endpoint (the
\* one run by its release included) completes normally and leaves the flag
\* set and both positions as they were.
C8_CancelIdempotent ==
    [][/\ (capacity >= 2 /\ CancelStepP /\ cancelsP' >= 2) =>
              /\ cancelOutP' # "panic"
              /\ one_was_dropped'
              /\ next_write_pos' = next_write_pos
              /\ next_read_pos' = next_read_pos
       /\ (capacity >= 2 /\ CancelStepC /\ cancelsC' >= 2) =>
              /\ cancelOutC' # "panic"
              /\ one_was_dropped'
              /\ next_write_pos' = next_write_pos
              /\ next_read_pos' = next_read_pos]_vars

\* C9: the flag is false when the channel has been constructed, and no step
\* clears it once it is set.
C9_FlagSetOnce ==
    [][/\ (channel = "requested" /\ channel' = "created") => ~one_was_dropped'
       /\ one_was_dropped => one_was_dropped']_vars

\* the flag is set and both endpoints have gone on to call, and been refused
C9_Witness ==
    /\ one_was_dropped
    /\ cancelsP >= 1
    /\ cancelsC >= 1
    /\ resP = "Err"
    /\ resC = "Err"

\* C10: a channel exists only for a capacity of at least 2.
C10_CapacityAtLeastTwo ==
    channel = "created" => capacity >= 2

\* C11: a read_exact that returns Ok has submitted exactly ceil(L / B)
\* requests for its buffer of L bytes, all on endpoint 0x82, the j-th for the
\* j-th block of the buffer: B bytes each, except that the last has L mod B
\* bytes when B does not divide L (so k requests for L = k * B).
C11_ChunkRequests ==
    (FillReturns /\ rres = "Ok") =>
        LET n == (buflen + blocksize - 1) \div blocksize
            r == buflen % blocksize
        IN  /\ Len(requests) = n
            /\ \A j \in 1..n :
                  requests[j] = <<EP_DATA, (j - 1) * blocksize,
                                  IF j = n /\ r # 0 THEN r ELSE blocksize>>
            /\ r = 0 => n * blocksize = buflen

\* a buffer longer than the window, with a remainder of one byte, was filled
C11_Witness ==
    /\ FillReturns
    /\ rres = "Ok"
    /\ buflen % blocksize = 1
    /\ Len(requests) > window + 1

\* C12 as stated: read_exact returns Ok if and only if every request it has
\* submitted came back with its full length.
C12_OkIffAllFull ==
    FillReturns => (rres = "Ok" <=> AllCompletedFull)

\* C12 amended: read_exact returns Ok if and only if the mode switch has
\* succeeded, a request has been submitted for every chunk of the buffer and
\* every request came back with its full length; after a short transfer it
\* returns Err.
C12_OkIffAllSubmittedAndFull ==
    FillReturns =>
        /\ rres = "Ok" <=> /\ streaming_mode
                           /\ Len(requests) = ChunksLen(buflen)
                           /\ AllCompletedFull
        /\ saw_short => rres = "Err"

\* every chunk of a buffer longer than the window was submitted, one transfer
\* came back short in the final drain, and read_exact returns Err
C12_Witness ==
    /\ FillReturns
    /\ rres = "Err"
    /\ saw_short
    /\ ~saw_io
    /\ Len(requests) = mut_chunks_len
    /\ mut_chunks_len > window + 1
    /\ collected > 1

\* C13: while read_exact runs, at most W = 500 requests are outstanding.
C13_WindowBound ==
    rpc # "idle" => Outstanding <= window

\* C14: once submit or wait_any has reported a transport error, read_exact
\* submits nothing more and is on its way out (the final count is all that
\* is left), and it returns Err.
C14_TransportErrorIsFatal ==
    /\ [](saw_io => /\ rpc \in {"tally", "done"}
                    /\ (FillReturns => rres = "Err"))
    /\ [][(saw_io /\ rpc' # "idle") => requests' = requests]_vars

\* wait_any reported a transport error in the final drain of a buffer longer
\* than the window, with transfers still outstanding, and read_exact
\* returns Err
C14_Witness ==
    /\ FillReturns
    /\ saw_io
    /\ rres = "Err"
    /\ chunk_i = mut_chunks_len
    /\ mut_chunks_len > window
    /\ Outstanding > 0
    /\ collected > 0

\* C16 as stated: once set_streaming_mode has succeeded no call of it touches
\* the device, and on a session in streaming mode each interface has been
\* claimed once and the descriptor written once.
C16_HandshakeOnce ==
    /\ [](streaming_mode => HandshakeDone = WholeHandshake)
    /\ [][streaming_mode => (streaming_mode' /\ handshake' = handshake)]_vars

\* C16 amended: once set_streaming_mode has succeeded no call of it touches
\* the device; on a session in streaming mode the descriptor has been written
\* once, as the last operation of the handshake, each interface having been
\* claimed before it (an attempt that failed earlier may have claimed an
\* interface as well).
C16_HandshakeIdempotent ==
    /\ [](streaming_mode =>
            LET n == Len(HandshakeDone)
            IN  /\ n >= 3
                /\ SubSeq(HandshakeDone, n - 2, n) = WholeHandshake
                /\ \A j \in 1..(n - 1) : HandshakeDone[j] # WriteOp(TRUE))
    /\ [][streaming_mode => (streaming_mode' /\ handshake' = handshake)]_vars

\* the first read_exact made the handshake, the second has submitted a
\* request without touching the handshake
C16_Witness ==
    /\ fills = 2
    /\ handshake = WholeHandshake
    /\ streaming_mode
    /\ Len(requests) > 0

\* C15: a buffer whose fill failed never reaches the consumer. Ring session:
\* once a read_exact has returned Err, the write position is still that of
\* the failed buffer, no position beyond it is published or known to the
\* consumer, and what the consumer has been handed are the buffers of the
\* earlier fills. Recycling session: every buffer pushed onto the full-buffer
\* queue has had all its requests submitted and completed, and once the
\* worker has failed nothing is pushed.
C15_AbortedFillNotPublished ==
    /\ [](RingFillFailed =>
            /\ next_write_pos = fills - 1
            /\ \A j \in 1..Len(write_feed) : write_feed[j] <= next_write_pos
            /\ lastknown_next_write_pos <= next_write_pos
            /\ c_next_write_pos <= next_write_pos
            /\ Len(recvLog) <= next_write_pos
            /\ \A k \in 1..Len(recvLog) : recvLog[k] = Item(k - 1))
    /\ [](\A j \in 1..Len(Pushed) : Filled(Pushed[j]))
    /\ [][(MpscFailed /\ full_buffers' # full_buffers) =>
              full_buffers' \in {Tail(full_buffers), <<>>}]_vars

\* the third fill of a ring session has failed after the consumer was handed
\* a buffer; the slot of the failed fill is left half-written and the
\* consumer's next receive has returned Err
C15_Witness ==
    /\ RingFillFailed
    /\ next_write_pos = 2
    /\ buffer[2] = Torn
    /\ Len(recvLog) >= 1
    /\ pcC = "idle"
    /\ resC = "Err"

\* C17: a bulk read is submitted only on a session whose streaming-mode
\* command has been written with success, by read_exact and by the recycling
\* worker alike.
C17_NoReadBeforeCommand ==
    (Len(requests) > 0 \/ MpscSubmitted \/ rpc = "submit" \/ mpc = "submit") =>
        /\ streaming_mode
        /\ Len(HandshakeDone) >= 3
        /\ HandshakeDone[Len(HandshakeDone)] = WriteOp(TRUE)

\* the recycling worker has made the handshake and has requests outstanding
C17_Witness ==
    /\ session = "mpsc"
    /\ outstanding > 0
    /\ handshake = WholeHandshake

\* C18: in a ring session in which no read_exact fails and the consumer is
\* released after it has received a buffer, its release completing
\* normally, the worker does not panic.
C18_CleanExitOnRelease ==
    (session = "ringbuf" /\ ConsumerReleased /\ cancelOutC # "panic"
        /\ next_read_pos >= 1 /\ rres # "Err") =>
        /\ resP # "Panic"
        /\ cancelOutP # "panic"
        /\ pcP # "aborted"

\* C19: when a read_exact (the handshake included) fails in the worker, the
\* worker ends. Ring session: the producer is released, a receive the
\* consumer begins afterwards returns Err at its first check, and a receive
\* that waits when the worker fails does not enter its callback and
\* eventually returns Err. Recycling session: the worker never runs again
\* and eventually the Sender of the full-buffer queue is gone, so that a
\* recv on the empty queue reports the disconnection.
C19_FailureEndsStream ==
    /\ [](RingFillFailed => WorkerEnding)
    /\ [][(RingFillFailed /\ pcC = "check" /\ pcC' # "check") =>
              (pcC' = "idle" /\ resC' = "Err")]_vars
    /\ [][MpscFailed => mpc' = "panicked"]_vars
    /\ ((RingFillFailed /\ pcC \in {"check", "recv"}) \/ MpscFailed)
            ~> (resC = "Err" \/ (MpscFailed /\ ~full_buffer_tx))

\* the consumer of a ring session was waiting when the worker's second fill
\* failed, and its receive has returned Err
C19_Witness ==
    /\ RingFillFailed
    /\ recvBlockedAtDrop
    /\ next_write_pos = 1
    /\ pcC = "idle"
    /\ resC = "Err"
    /\ pcP = "dropped"

\* C20: once a fill has failed, the worker of the session submits no request
\* and begins no fill: in a ring session no read_exact is called and nothing
\* is submitted, in a recycling session no buffer is taken and no request
\* submitted.
C20_NoRetry ==
    [][/\ (session = "ringbuf" /\ rres = "Err") =>
              /\ fills' = fills
              /\ requests' \in {requests, <<>>}
       /\ MpscFailed =>
              /\ taken' = taken
              /\ UNCHANGED <<async_group_buffer, current_buffer, outstanding>>]_vars

\* the recycling worker has ended on a short transfer while another buffer
\* waits on the empty-buffer queue
C20_Witness ==
    /\ mres = "short"
    /\ empty_buffers # <<>>
    /\ Len(taken) >= 1

\* C21: in a ring session the buffers handed to the consumer's callback are,
\* in order and one for one, the first buffers whose fill the worker has
\* begun and completed: the k-th receive gets the content of the k-th fill,
\* that fill has returned Ok and its position has been published, and the
\* slot keeps that content while the receive callback runs.
C21_RingStreamOrder ==
    session = "ringbuf" =>
        /\ Len(recvLog) <= Len(sendLog)
        /\ Len(sendLog) <= fills
        /\ Len(sendLog) = fills => rres # "Err"
        /\ \A k \in 1..Len(recvLog) : recvLog[k] = sendLog[k] /\ recvLog[k] = Item(k - 1)
        /\ pcC = "func" => buffer[next_read_pos % capacity] = recvLog[Len(recvLog)]

\* the consumer of a ring session is handed the sixth buffer, from a slot
\* that has been used before, while the worker is past that fill
C21_Witness ==
    /\ session = "ringbuf"
    /\ pcC = "func"
    /\ Len(recvLog) = RING_SLOTS + 2
    /\ recvLog[RING_SLOTS + 2] = Item(RING_SLOTS + 1)
    /\ bufsize > 0

\* C22: the recycling worker pushes buffers onto the full-buffer queue in the
\* order in which it took them from the empty-buffer queue, each once: the
\* j-th buffer pushed is the j-th buffer taken, and every push puts the
\* oldest buffer the worker holds at the tail of the queue.
C22_PushOrder ==
    /\ [](/\ Len(Pushed) <= Len(taken)
          /\ \A j \in 1..Len(Pushed) : Pushed[j].id = taken[j])
    /\ [][(Len(full_buffers') > Len(full_buffers)) =>
              /\ async_group_buffer # <<>>
              /\ full_buffers' = Append(full_buffers, Head(async_group_buffer))]_vars

\* two buffers have been pushed, and received by the caller, while the
\* worker fills a third
C22_Witness ==
    /\ session = "mpsc"
    /\ Len(received) = 2
    /\ received[1].id = 1
    /\ received[2].id = 2
    /\ received[2].len > 0
    /\ current_buffer.id = 3

\* C23: a buffer is pushed onto the full-buffer queue only when a request
\* has been submitted for each of its chunks and every one of them has come
\* back with its full length, none being outstanding.
C23_PushedAreDrained ==
    [][(Len(full_buffers') > Len(full_buffers)) =>
          LET b == full_buffers'[Len(full_buffers')]
          IN  /\ b.sub = (b.len + blocksize - 1) \div blocksize
              /\ b.full = b.sub
              /\ b.pend = 0]_vars

\* a buffer longer than the window has been pushed, after the buffer taken
\* before it
C23_Witness ==
    /\ Len(full_buffers) = 1
    /\ full_buffers[1].id = 2
    /\ full_buffers[1].len > window * blocksize
    /\ full_buffers[1].full > window

\* C24: with a caller that receives every full buffer and sends it back, and
\* a device that completes every request, every buffer the worker has taken
\* is eventually pushed. For that the worker must never be left waiting for
\* an empty buffer while it holds every buffer in circulation, none having
\* been pushed: the caller then has no buffer to send.
C24_TakenArePushed ==
    ~ /\ session = "mpsc"
      /\ mpc = "take"
      /\ mres = "none"
      /\ empty_buffer_tx
      /\ full_buffer_rx
      /\ sent >= 1
      /\ Len(async_group_buffer) = sent
      /\ \A j \in 1..sent : async_group_buffer[j].len > 0
      /\ empty_buffers = <<>>
      /\ full_buffers = <<>>
      /\ received = <<>>

\* C25: when the worker returns after the empty-buffer queue was closed, with
\* the caller still holding the full-buffer queue and nothing having failed,
\* every buffer it took has been pushed.
C25_NoBufferLostAtShutdown ==
    (mpc = "returned" /\ mres = "Ok" /\ full_buffer_rx) =>
        Len(Pushed) = Len(taken)

\* C26: once the empty-buffer queue is closed, the caller holding the
\* full-buffer queue, the worker that waits for a buffer, or is in the pass
\* that follows its loop, does not panic unless the device fails.
C26_CleanExitOnClose ==
    [][(/\ ~empty_buffer_tx
        /\ full_buffer_rx
        /\ mpc \in {"take", "final", "final_ship"}
        /\ mpc' = "panicked") => mres' \in {"short", "transport"}]_vars

\* C29: without cancellation, in a ring of capacity N >= 2, a send waits for
\* a further acknowledgement (every acknowledgement sent having reached the
\* producer) only when no slot is free, that is when
\* write_pos - read_pos >= N.
C29_SendBlocksOnlyWhenFull ==
    (channel = "created" /\ capacity >= 2 /\ ~one_was_dropped
        /\ pcP = "recv" /\ ack_feed = <<>> /\ pcC # "advance") =>
        next_write_pos - next_read_pos >= capacity

\* the steps of a with_next_buffer up to its callback: the check of the loop
\* and the wait for the next item
InLoop == {"check", "recv"}

\* C30: a send returns Err only from the check of its loop, and no step of
\* the call up to there enters the callback, writes a slot, advances
\* write_pos or publishes a position; a receive returns Err only from the
\* check of its loop, and no step of the call up to there enters the
\* callback, advances read_pos or sends an acknowledgement.
C30_CancelledHasNoEffect ==
    /\ [][(pcP \notin {"idle", "cancel_send"} /\ pcP' = "idle" /\ resP' = "Err") =>
              pcP = "check"]_vars
    /\ [][((pcP \in InLoop \/ pcP' \in InLoop) /\ pcP' # pcP
                /\ pcP' \in InLoop \cup {"idle"}) =>
              UNCHANGED <<buffer, next_write_pos, write_feed, sendLog>>]_vars
    /\ [][(pcC \notin {"idle", "cancel_send"} /\ pcC' = "idle" /\ resC' = "Err") =>
              pcC = "check"]_vars
    /\ [][((pcC \in InLoop \/ pcC' \in InLoop) /\ pcC' # pcC
                /\ pcC' \in InLoop \cup {"idle"}) =>
              UNCHANGED <<buffer, next_read_pos, ack_feed, recvLog>>]_vars

\* a send that waited for an acknowledgement with every slot in use was
\* woken by the consumer's release and has returned Err, the third buffer
\* unsent
C30_Witness ==
    /\ channel = "created"
    /\ capacity = 2
    /\ pcP = "idle"
    /\ resP = "Err"
    /\ sendBlockedAtDrop
    /\ next_write_pos = 2
    /\ Len(sendLog) = 2

\* a record the claim of the round trip is about: its strings are ASCII and fit
\* strings_buf with their two-byte headers
FitsStrings(c) ==
    /\ \A string \in {c.manufacturer, c.product_description, c.serial_number} :
           \A i \in 1..Len(string) : string[i] < 128
    /\ 3 * 2 + 2 * (Len(c.manufacturer) + Len(c.product_description)
                        + Len(c.serial_number)) <= STRINGS_LEN

\* C27: for every record whose three ASCII strings fit the 128-byte string
\* area, and whatever its enums and its flash/ROM flags are, encode succeeds
\* and parse of the encoded bytes succeeds and returns a record equal to the
\* original in every field.
C27_ConfigRoundTrip ==
    (session = "config" /\ ctl = NoControl /\ FitsStrings(config[1]))
        => /\ enc_res # "Err"
           /\ (dec_res # "none" => (dec_res = "Ok" /\ parsed = config))

\* a record with a string of the maximum length has been encoded and parsed
\* back
C27_Witness ==
    /\ session = "config"
    /\ dec_res = "Ok"
    /\ Len(config[1].serial_number) = MaxStringLen
    /\ parsed = config

\* C28: a control transfer that moves a byte count other than 152 makes
\* get_config return an error and no configuration, and makes set_config
\* return an error.
C28_CountMismatchIsError ==
    (session = "config" /\ ctl.count # None /\ ctl.count # CONFIG_LEN)
        => /\ ctl.res = "Err"
           /\ (ctl.op = "get" => (parsed = <<>> /\ dec_res = "none"))

\* get_config has returned an error for a count one short of 152
C28_Witness ==
    /\ ctl.op = "get"
    /\ ctl.count = CONFIG_LEN - 1
    /\ ctl.res = "Err"
    /\ parsed = <<>>

\* C31: read_exact returns Ok only from the final count, with the completions
\* it retired in full equal in number to the requests it submitted (one for
\* every chunk) and no request outstanding; when it returns with a request
\* still outstanding, it returns Err.
C31_OkOnlyWhenAllRetired ==
    /\ [][(rpc # "done" /\ rpc' = "done" /\ rres' = "Ok") => rpc = "tally"]_vars
    /\ [](FillReturns =>
             /\ rres = "Ok" => /\ AllCompletedFull
                               /\ ~saw_short
                               /\ Len(requests) = mut_chunks_len
                               /\ Outstanding = 0
             /\ Outstanding > 0 => rres = "Err")

\* a buffer longer than the window has been filled: every chunk was
\* submitted, some were retired in the windowing phase and the rest in the
\* drain, and read_exact returns Ok
C31_Witness ==
    /\ FillReturns
    /\ rres = "Ok"
    /\ mut_chunks_len > window + 1
    /\ collected = mut_chunks_len
    /\ Outstanding = 0

\* C32: while the recycling worker runs, the requests submitted and not yet
\* retired, summed over the buffers of async_group_buffer and the current
\* buffer, are at most W = 500, and the counter `outstanding` equals that
\* number.
C32_MpscWindowBound ==
    LET RECURSIVE Pending(_)
        Pending(bufs) == IF bufs = <<>> THEN 0
                         ELSE Head(bufs).pend + Pending(Tail(bufs))
        InFlightRequests == Pending(async_group_buffer) + current_buffer.pend
    IN  (session = "mpsc" /\ mpc \notin {"start", "mode", "returned", "panicked"})
            => /\ InFlightRequests <= window
               /\ outstanding = InFlightRequests

\* C33: the flag stays set once it is set; a send or a receive starts with
\* the test of the flag, and a test that finds the flag set makes the call
\* return Err without running its callback, touching a slot or moving its
\* position, whatever is published and unread in the ring. So every send and
\* every receive called after the flag was set returns Err, and the consumer
\* is handed no buffer by a receive called after the producer has cancelled
\* or been released.
C33_CancelledFromThenOn ==
    /\ [][one_was_dropped => one_was_dropped']_vars
    /\ [][(pcP = "idle" /\ pcP' \notin {"idle", "cancel_send", "drop_send"}) =>
              pcP' = "check"]_vars
    /\ [][(pcC = "idle" /\ pcC' \notin {"idle", "cancel_send", "drop_send"}) =>
              pcC' = "check"]_vars
    /\ [][(one_was_dropped /\ pcP = "check" /\ pcP' # pcP) =>
              /\ pcP' = "idle"
              /\ resP' = "Err"
              /\ UNCHANGED <<buffer, sendLog, next_write_pos, write_feed>>]_vars
    /\ [][(one_was_dropped /\ pcC = "check" /\ pcC' # pcC) =>
              /\ pcC' = "idle"
              /\ resC' = "Err"
              /\ UNCHANGED <<buffer, recvLog, next_read_pos, ack_feed>>]_vars

\* the producer has cancelled with a buffer published that the consumer has
\* not read, and a receive of the consumer, which never cancelled, has
\* returned Err
C33_Witness ==
    /\ channel = "created"
    /\ capacity >= 2
    /\ one_was_dropped
    /\ cancelsP >= 1
    /\ cancelsC = 0
    /\ pcC = "idle"
    /\ resC = "Err"
    /\ Len(sendLog) > Len(recvLog)

\* C34: on a ring of capacity N >= 2 no send, receive, cancel or release of
\* an endpoint ends in a panic, however it is interleaved with the cancel
\* or release of the other endpoint.
C34_NoAbnormalEnd ==
    (channel = "created" /\ capacity >= 2)
        => /\ resP # "Panic"
           /\ resC # "Panic"
           /\ cancelOutP # "panic"
           /\ cancelOutC # "panic"
           /\ pcP \notin {"panicked", "aborted"}
           /\ pcC \notin {"panicked", "aborted"}

\* C35: on a ring of capacity N >= 2 the subtraction next_read_pos - 1 of a
\* consumer's cancel() never underflows, a consumer that has received no
\* buffer included, and the subtraction next_write_pos - last_read_pos of the
\* producer's wait condition, which is computed when the test of the flag
\* has found it unset, never underflows for a position it is given.
C35_NoUnderflow ==
    (channel = "created" /\ capacity >= 2)
        => /\ pcC \in {"cancel_send", "drop_send"} => ~SubOverflows(next_read_pos, 1)
           /\ (pcP = "check" /\ ~one_was_dropped)
                  => ~SubOverflows(next_write_pos, p_last_read_pos)

\* C36: a set_streaming_mode that ends in Err (a claim or the write of the
\* descriptor failed) leaves streaming_mode unset; read_exact then returns
\* Err at once, and as long as streaming_mode is unset no bulk read has been
\* submitted; the next read_exact calls set_streaming_mode, which, finding
\* streaming_mode unset, starts the handshake over with claim_interface(0).
C36_FailedHandshakeIsRetried ==
    /\ [](ssm_pc = "Err" => ~streaming_mode)
    /\ [](~streaming_mode => (requests = <<>> /\ Outstanding = 0))
    /\ [][(rpc = "mode" /\ ssm_pc = "Err" /\ rpc' # rpc) =>
              (rpc' = "done" /\ rres' = "Err" /\ ~streaming_mode')]_vars
    /\ [][(rpc = "idle" /\ rpc' # rpc) => (rpc' = "mode" /\ ssm_pc' = "enter")]_vars
    /\ [][(ssm_pc = "enter" /\ ~streaming_mode /\ ssm_pc' # ssm_pc) =>
              ssm_pc' = "claim0"]_vars
    /\ [][(ssm_pc = "claim0" /\ ssm_pc' # ssm_pc) =>
              \E ok \in BOOLEAN : handshake' = Append(handshake, ClaimOp(0, ok))]_vars

\* the handshake of the first read_exact failed at the write of the
\* descriptor; the second read_exact has made the whole handshake again and
\* has submitted a request
C36_Witness ==
    /\ fills = 2
    /\ handshake = <<ClaimOp(0, TRUE), ClaimOp(1, TRUE), WriteOp(FALSE)>>
                       \o WholeHandshake
    /\ streaming_mode
    /\ Len(requests) > 0

\* C37: the assertions of the recycling worker hold: whenever a poll, inside
\* the loop or after it, comes to a group with nothing left to wait for, no
\* group was found so before in that poll and the group is the oldest of
\* async_group_buffer (index 0); the worker never panics on an assertion.
C37_AssertionsHold ==
    LET n == Len(async_group_buffer)
        last == IF mpc = "final" THEN n - 1 ELSE n
        b == IF poll_i < n THEN async_group_buffer[poll_i + 1] ELSE current_buffer
    IN  session = "mpsc" =>
            /\ mres # "assert"
            /\ (mpc \in {"poll", "final"} /\ poll_i <= last /\ b.pend = 0)
                   => (to_ship = None /\ poll_i = 0)

====
